------------------------------ MODULE FileSystem ------------------------------
(***************************************************************************)
(* The in-memory file system of MiniCore-OS (fs.c, fs.h): a table of       *)
(* FS_MAX_FILES entries and one array of bytes in which entry i owns the   *)
(* FS_MAX_FILESIZE bytes from i * FS_MAX_FILESIZE on.  There is no         *)
(* operation that changes or removes a file.                               *)
(*                                                                         *)
(* Names and contents are sequences of bytes without the NUL that ends     *)
(* them in C; the name field of an entry and file_data are the arrays of   *)
(* the code, written and read byte by byte.  filesystem.magic and the      *)
(* permissions, which nothing reads, are left out.                         *)
(*                                                                         *)
(* Every exported function is one action, except that the calls of         *)
(* fs_add_file in fs_create_demo_files are one action each, with demo as   *)
(* the number of the next one.  answer is not in the code: it is what the  *)
(* last call returned to its caller, the bytes fs_read points to included. *)
(***************************************************************************)
EXTENDS Integers, Sequences, FiniteSetsExt

CONSTANTS
    FS_MAX_FILES,       \* 16 in the code
    FS_MAX_FILENAME,    \* 32
    FS_MAX_FILESIZE,    \* 4096
    Byte,               \* what names and contents are made of
    Names, Contents,    \* arguments of the functions
    DemoFiles           \* the names and contents of the files preloaded

NUL == 0
FileType == {"TEXT", "BINARY"}
Slots == 0 .. FS_MAX_FILES - 1
NameField == 0 .. FS_MAX_FILENAME - 1
Offsets == 0 .. FS_MAX_FILES * FS_MAX_FILESIZE - 1
NULL == -1              \* the data pointer of an unused entry, else an offset

ASSUME FileSystemConstants ==
    /\ FS_MAX_FILES \in Nat \ {0} /\ FS_MAX_FILENAME \in Nat \ {0}
    /\ FS_MAX_FILESIZE \in Nat \ {0}
    /\ NUL \notin Byte
    /\ Names \subseteq Seq(Byte) /\ Contents \subseteq Seq(Byte)
    /\ DemoFiles \in Seq([name : Names, content : Contents])

\* The demo files are few and short enough, and no two have one name: there is
\* nothing for which fs_add_file could refuse one.
ASSUME DemoFilesFit ==
    /\ Len(DemoFiles) <= FS_MAX_FILES
    /\ \A i \in 1 .. Len(DemoFiles) :
          /\ Len(DemoFiles[i].name) < FS_MAX_FILENAME
          /\ Len(DemoFiles[i].content) < FS_MAX_FILESIZE
          /\ \A j \in 1 .. i - 1 : DemoFiles[j].name # DemoFiles[i].name

VARIABLES
    fs_initialized,
    file_count, files, file_data,   \* the fields of filesystem
    demo,       \* the demo file to be added next, 0 outside fs_create_demo_files
    answer      \* the outcome of the last call

fsVars == <<fs_initialized, file_count, files, file_data, demo, answer>>

BlankName == [i \in NameField |-> NUL]
NoFile == [name |-> BlankName, size |-> 0, type |-> "TEXT", data |-> NULL]

\* The statics of fs.c at boot.
FsInit ==
    /\ fs_initialized = FALSE
    /\ file_count = 0
    /\ files = [i \in Slots |-> NoFile]
    /\ file_data = [i \in Offsets |-> NUL]
    /\ demo = 0
    /\ answer = [code |-> 0, bytes |-> <<>>, directory |-> <<>>]

----------------------------------------------------------------------------
\* A field that is too short keeps what fits of the string.
fs_strcpy(dest, src) ==
    [i \in NameField |-> IF i < Len(src) THEN src[i + 1]
                         ELSE IF i = Len(src) THEN NUL ELSE dest[i]]

\* The string that fs_strlen, fs_strcmp and the printing functions read.
StringIn(field) ==
    LET len == Min({i \in NameField : field[i] = NUL} \cup {FS_MAX_FILENAME})
    IN  [i \in 1 .. len |-> field[i - 1]]

\* fs_find_file, as a set of at most one slot: the first with that name.
fs_find_file(filename) ==
    {i \in Slots :
        /\ fs_initialized /\ i < file_count
        /\ StringIn(files[i].name) = filename
        /\ \A j \in 0 .. i - 1 : StringIn(files[j].name) # filename}

\* Mutant of TooLong: no place is kept for the NUL.
TooLong_tight(name, content) == Len(name) > FS_MAX_FILENAME \/ Len(content) > FS_MAX_FILESIZE

TooLong(name, content) == Len(name) >= FS_MAX_FILENAME \/ Len(content) >= FS_MAX_FILESIZE

\* The return value of fs_add_file.
AddCode(name, content) ==
    IF ~fs_initialized \/ file_count >= FS_MAX_FILES THEN -1
    ELSE IF TooLong(name, content) THEN -2
    ELSE IF fs_find_file(name) # {} THEN -3
    ELSE 0

\* Mutant of DataOffset: the index is not scaled, so areas overlap.
DataOffset_unscaled(file_index) == file_index

DataOffset(file_index) == file_index * FS_MAX_FILESIZE

\* A new file and its answer; a call that is refused changes nothing else.
fs_add_file(name, content, type) ==
    LET file_index == file_count
        data == DataOffset(file_index)
    IN  /\ answer' = [code |-> AddCode(name, content), bytes |-> <<>>, directory |-> <<>>]
        /\ \/ /\ AddCode(name, content) # 0
              /\ UNCHANGED <<file_count, files, file_data>>
           \/ /\ AddCode(name, content) = 0
              /\ files' = [files EXCEPT ![file_index] =
                              [name |-> fs_strcpy(@.name, name), size |-> Len(content),
                               type |-> type, data |-> data]]
              /\ file_data' = [i \in Offsets |->
                                  IF i - data \in 0 .. Len(content) - 1
                                  THEN content[i - data + 1] ELSE file_data[i]]
              /\ file_count' = file_count + 1
        /\ UNCHANGED fs_initialized

AddFile(name, content, type) ==
    demo = 0 /\ fs_add_file(name, content, type) /\ UNCHANGED demo

\* Mutant of fs_init: nothing keeps it from running again.
fs_init_again ==
    /\ demo = 0
    /\ fs_initialized' = TRUE
    /\ file_count' = 0
    /\ files' = [i \in Slots |-> NoFile]
    /\ file_data' = [i \in Offsets |-> NUL]
    /\ demo' = IF DemoFiles = <<>> THEN 0 ELSE 1
    /\ UNCHANGED answer

\* Mutant of fs_init: the flag is set last, and every fs_add_file before is refused.
fs_init_flag_late ==
    /\ demo = 0 /\ ~fs_initialized
    /\ fs_initialized' = TRUE
    /\ file_count' = 0
    /\ files' = [i \in Slots |-> NoFile]
    /\ file_data' = [i \in Offsets |-> NUL]
    /\ answer' = [code |-> -1, bytes |-> <<>>, directory |-> <<>>]
    /\ UNCHANGED demo

\* Up to the call of fs_create_demo_files.  A second call returns at once.
fs_init ==
    /\ demo = 0 /\ ~fs_initialized
    /\ fs_initialized' = TRUE
    /\ file_count' = 0
    /\ files' = [i \in Slots |-> NoFile]
    /\ file_data' = [i \in Offsets |-> NUL]
    /\ demo' = IF DemoFiles = <<>> THEN 0 ELSE 1
    /\ UNCHANGED answer

\* fs_create_demo_files ignores what fs_add_file returns.  It is exported: any
\* code may call it once more.
DemoAgain ==
    /\ demo = 0 /\ DemoFiles # <<>>
    /\ demo' = 1
    /\ UNCHANGED <<fs_initialized, file_count, files, file_data, answer>>

DemoAdd ==
    /\ demo \in 1 .. Len(DemoFiles)
    /\ fs_add_file(DemoFiles[demo].name, DemoFiles[demo].content, "TEXT")
    /\ demo' = IF demo = Len(DemoFiles) THEN 0 ELSE demo + 1

fs_create_demo_files == DemoAgain \/ DemoAdd

\* The bytes that the pointer and the size of entry i delimit.
BytesOf(i) == [k \in 1 .. files[i].size |-> file_data[files[i].data + k - 1]]

\* fs_read, with the bytes cmd_cat prints.
fs_read(filename) ==
    /\ demo = 0
    /\ \/ /\ fs_find_file(filename) = {}
          /\ answer' = [code |-> -1, bytes |-> <<>>, directory |-> <<>>]
       \/ \E i \in fs_find_file(filename) :
             answer' = [code |-> 0, bytes |-> BytesOf(i), directory |-> <<>>]
    /\ UNCHANGED <<fs_initialized, file_count, files, file_data, demo>>

\* fs_list, with the lines it prints.
fs_list ==
    /\ demo = 0
    /\ answer' = IF ~fs_initialized THEN [code |-> -1, bytes |-> <<>>, directory |-> <<>>]
                 ELSE [code |-> 0, bytes |-> <<>>,
                       directory |-> [i \in 1 .. file_count |->
                           [name |-> StringIn(files[i - 1].name), size |-> files[i - 1].size,
                            type |-> files[i - 1].type]]]
    /\ UNCHANGED <<fs_initialized, file_count, files, file_data, demo>>

FsNext ==
    \/ fs_init
    \/ fs_create_demo_files
    \/ \E name \in Names, content \in Contents, type \in FileType : AddFile(name, content, type)
    \/ \E name \in Names : fs_read(name)
    \/ fs_list

FsSpec == FsInit /\ [][FsNext]_fsVars

----------------------------------------------------------------------------
\* The types; and every name field holds its NUL, so that fs_strcmp and
\* terminal_writestring stop inside it, for names of any length fs_add_file lets in.
FsTypeOK ==
    /\ fs_initialized \in BOOLEAN
    /\ file_count \in 0 .. FS_MAX_FILES
    /\ files \in [Slots -> [name : [NameField -> Byte \cup {NUL}],
                            size : 0 .. FS_MAX_FILESIZE - 1, type : FileType,
                            data : Offsets \cup {NULL}]]
    /\ file_data \in [Offsets -> Byte \cup {NUL}]
    /\ demo \in 0 .. Len(DemoFiles)
    /\ \A i \in Slots : \E k \in NameField : files[i].name[k] = NUL

\* Once fs_init has returned, the demo files are there, in their order and
\* before any other ("Files are stored in memory and preloaded at boot", fs.c;
\* kernel_main announces "5 files loaded" without looking).
DemoLoaded ==
    fs_initialized /\ demo = 0 =>
        /\ file_count >= Len(DemoFiles)
        /\ \A i \in 1 .. Len(DemoFiles) :
              /\ StringIn(files[i - 1].name) = DemoFiles[i].name
              /\ BytesOf(i - 1) = DemoFiles[i].content

\* A file never changes ("Read-only access to preloaded files", fs.c): the
\* pointer fs_read hands out goes on showing the same bytes, whatever is added
\* and however often fs_init is called.
ReadOnly ==
    [][\A i \in Slots : i < file_count =>
            i < file_count' /\ files'[i] = files[i] /\ BytesOf(i)' = BytesOf(i)]_fsVars

\* What the table and the byte array stand for.
StoredFiles ==
    [i \in 1 .. file_count |->
        [name |-> StringIn(files[i - 1].name), content |-> BytesOf(i - 1),
         type |-> files[i - 1].type]]

FS == INSTANCE FileStore WITH
        MaxFiles <- FS_MAX_FILES, MaxName <- FS_MAX_FILENAME, MaxSize <- FS_MAX_FILESIZE,
        Types <- FileType, up <- fs_initialized, store <- StoredFiles

\* The table and the byte array implement the file store: what fs_list and
\* fs_read return is what was added, under its own name, and a call that is
\* refused says why and changes nothing.
ImplementsFileStore == FS!StoreSpec
=============================================================================
