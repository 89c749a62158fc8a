--------------------------- MODULE FileSystemProofs ---------------------------
(***************************************************************************)
(* What is proved of the file system, for every size of the table, of its  *)
(* names and of its files, and for every names and contents: the types,    *)
(* that the demo files are loaded, that a file never changes, and that the *)
(* table implements the file store.                                        *)
(***************************************************************************)
EXTENDS FileSystem, TLAPS

Text == Byte \cup {NUL}
Entry == [name : [NameField -> Text], size : 0 .. FS_MAX_FILESIZE - 1, type : FileType,
          data : Offsets \cup {NULL}]

----------------------------------------------------------------------------
\* Names in their fields.

LEMMA LeastIs ==
    ASSUME NEW S \in SUBSET Int, NEW m \in S, \A x \in S : m <= x
    PROVE  Min(S) = m
  <1>1. \E x \in S : \A y \in S : x <= y
    OBVIOUS
  <1>2. Min(S) \in S /\ \A y \in S : Min(S) <= y
    BY <1>1 DEF Min
  <1>3. Min(S) <= m /\ m <= Min(S) /\ m \in Int /\ Min(S) \in Int
    BY <1>2
  <1> QED BY <1>3

\* The bytes of a string are no NULs.
LEMMA StringBytes ==
    ASSUME NEW s \in Seq(Byte)
    PROVE  /\ Len(s) \in Nat
           /\ \A i \in 1 .. Len(s) : s[i] \in Byte /\ s[i] # NUL
           /\ s = [i \in 1 .. Len(s) |-> s[i]]
  BY FileSystemConstants

LEMMA StrcpyField ==
    ASSUME NEW dest \in [NameField -> Text], NEW name \in Seq(Byte)
    PROVE  fs_strcpy(dest, name) \in [NameField -> Text]
  <1>1. ASSUME NEW i \in NameField, i < Len(name)
        PROVE  name[i + 1] \in Text
    <2>1. i + 1 \in 1 .. Len(name)
      BY <1>1, StringBytes DEF NameField
    <2> QED BY <2>1, StringBytes DEF Text
  <1> QED BY <1>1 DEF fs_strcpy, Text

\* A name that is short enough is read back as it was written, with its NUL.
LEMMA StrcpyReads ==
    ASSUME NEW dest \in [NameField -> Text], NEW name \in Seq(Byte),
           Len(name) < FS_MAX_FILENAME
    PROVE  /\ StringIn(fs_strcpy(dest, name)) = name
           /\ \E k \in NameField : fs_strcpy(dest, name)[k] = NUL
  <1> DEFINE field == fs_strcpy(dest, name)
             ends == {i \in NameField : field[i] = NUL} \cup {FS_MAX_FILENAME}
  <1>1. Len(name) \in NameField /\ Len(name) \in Nat
    BY StringBytes, FileSystemConstants DEF NameField
  <1>2. field[Len(name)] = NUL
    BY <1>1 DEF fs_strcpy
  <1>3. \A i \in NameField : i < Len(name) => field[i] = name[i + 1] /\ i + 1 \in 1 .. Len(name)
    BY <1>1 DEF fs_strcpy, NameField
  <1>4. \A i \in NameField : i < Len(name) => field[i] # NUL
    BY <1>3, StringBytes
  <1>5. Min(ends) = Len(name)
    <2>1. ends \in SUBSET Int /\ Len(name) \in ends
      BY <1>1, <1>2, FileSystemConstants DEF NameField
    <2>2. \A x \in ends : Len(name) <= x
      BY <1>1, <1>4, FileSystemConstants DEF NameField
    <2> HIDE DEF ends
    <2> QED BY <2>1, <2>2, LeastIs
  <1>6. StringIn(field) = [i \in 1 .. Len(name) |-> field[i - 1]]
    BY <1>5 DEF StringIn
  <1>7. \A i \in 1 .. Len(name) : field[i - 1] = name[i]
    <2> SUFFICES ASSUME NEW i \in 1 .. Len(name) PROVE field[i - 1] = name[i]
      OBVIOUS
    <2>1. i - 1 \in NameField /\ i - 1 < Len(name) /\ (i - 1) + 1 = i
      BY <1>1, FileSystemConstants DEF NameField
    <2> HIDE DEF field
    <2> QED BY <2>1, <1>3
  <1>8. StringIn(field) = [i \in 1 .. Len(name) |-> name[i]]
    <2> HIDE DEF field
    <2> QED BY <1>6, <1>7
  <1> QED BY <1>1, <1>2, <1>8, StringBytes

----------------------------------------------------------------------------
\* The areas of the entries in file_data.

\* Multiplication is monotonic: area i ends where the next begins, at the latest.
LEMMA AreaEnds ==
    ASSUME NEW i \in Nat, NEW n \in Nat, NEW s \in Nat, i < n
    PROVE  i * s \in Nat /\ n * s \in Nat /\ i * s + s <= n * s
  <1>1. PICK d \in Nat : n = i + 1 + d
    <2>1. n - i - 1 \in Nat /\ n = i + 1 + (n - i - 1)
      OBVIOUS
    <2> QED BY <2>1
  <1>2. n * s = i * s + s + d * s
    BY <1>1
  <1>3. d * s \in Nat /\ i * s \in Nat /\ n * s \in Nat
    OBVIOUS
  <1> QED BY <1>2, <1>3

LEMMA OffsetIn ==
    ASSUME NEW i \in Slots, NEW k \in 0 .. FS_MAX_FILESIZE - 1
    PROVE  DataOffset(i) \in Nat /\ DataOffset(i) + k \in Offsets
  <1>1. i \in Nat /\ FS_MAX_FILES \in Nat /\ i < FS_MAX_FILES /\ FS_MAX_FILESIZE \in Nat
    BY FileSystemConstants DEF Slots
  <1>2. DataOffset(i) \in Nat /\ FS_MAX_FILES * FS_MAX_FILESIZE \in Nat
        /\ DataOffset(i) + FS_MAX_FILESIZE <= FS_MAX_FILES * FS_MAX_FILESIZE
    BY <1>1, AreaEnds DEF DataOffset
  <1> QED BY <1>1, <1>2 DEF Offsets

\* A byte of an earlier entry lies before the area of a later one.
LEMMA AreasApart ==
    ASSUME NEW i \in Nat, NEW n \in Nat, i < n, NEW k \in 0 .. FS_MAX_FILESIZE - 1
    PROVE  DataOffset(i) + k < DataOffset(n)
  <1>1. DataOffset(i) \in Nat /\ DataOffset(n) \in Nat
        /\ DataOffset(i) + FS_MAX_FILESIZE <= DataOffset(n)
    BY FileSystemConstants, AreaEnds DEF DataOffset
  <1> QED BY <1>1, FileSystemConstants
----------------------------------------------------------------------------
\* The inductive invariant, part by part.

\* FsTypeOK without demo.
TableType ==
    /\ fs_initialized \in BOOLEAN
    /\ file_count \in 0 .. FS_MAX_FILES
    /\ files \in [Slots -> Entry]
    /\ file_data \in [Offsets -> Text]
    /\ \A i \in Slots : \E k \in NameField : files[i].name[k] = NUL

\* There is no file before fs_init.
ClosedInv == ~fs_initialized => file_count = 0

\* Every file has the area of its slot.
AreaInv == \A i \in Slots : i < file_count => files[i].data = DataOffset(i)

\* No two files have one name.
NamesInv ==
    \A i, j \in Slots : i < j /\ j < file_count =>
        StringIn(files[i].name) # StringIn(files[j].name)

\* The first n demo files are in the first n slots.
Loaded(n) ==
    /\ file_count >= n
    /\ \A i \in 1 .. n : /\ StringIn(files[i - 1].name) = DemoFiles[i].name
                         /\ BytesOf(i - 1) = DemoFiles[i].content

\* All of them are there, or fs_init is loading them and those before demo are.
DemoInv ==
    fs_initialized =>
        \/ Loaded(Len(DemoFiles))
        \/ demo >= 1 /\ file_count = demo - 1 /\ Loaded(demo - 1)

FsInv == TableType /\ demo \in 0 .. Len(DemoFiles) /\ ClosedInv /\ AreaInv /\ NamesInv /\ DemoInv

LEMMA SlotFacts ==
    /\ FS_MAX_FILES \in Nat /\ FS_MAX_FILENAME \in Nat /\ FS_MAX_FILESIZE \in Nat
    /\ FS_MAX_FILES >= 1 /\ FS_MAX_FILENAME >= 1 /\ FS_MAX_FILESIZE >= 1
    /\ \A i : i \in Slots <=> i \in Nat /\ i < FS_MAX_FILES
    /\ 0 \in NameField /\ NUL \in Text /\ NULL \in Offsets \cup {NULL}
  BY FileSystemConstants DEF Slots, NameField, Text

LEMMA ElementsIn ==
    ASSUME NEW S, NEW s \in Seq(S)
    PROVE  Len(s) \in Nat /\ \A i \in 1 .. Len(s) : s[i] \in S
  OBVIOUS

LEMMA ArgFacts ==
    /\ \A n \in Names : n \in Seq(Byte)
    /\ \A c \in Contents : c \in Seq(Byte)
    /\ Len(DemoFiles) \in Nat
    /\ \A i \in 1 .. Len(DemoFiles) :
          DemoFiles[i].name \in Names /\ DemoFiles[i].content \in Contents
  <1>1. \A i \in 1 .. Len(DemoFiles) : DemoFiles[i] \in [name : Names, content : Contents]
    BY FileSystemConstants, ElementsIn
  <1>2. Len(DemoFiles) \in Nat
    BY FileSystemConstants, ElementsIn
  <1> QED BY <1>1, <1>2, FileSystemConstants

LEMMA NoFileEntry ==
    NoFile \in Entry /\ (\E k \in NameField : NoFile.name[k] = NUL)
  <1>1. BlankName \in [NameField -> Text] /\ BlankName[0] = NUL
    BY SlotFacts DEF BlankName
  <1>2. NoFile.name = BlankName
    BY DEF NoFile
  <1>3. 0 \in 0 .. FS_MAX_FILESIZE - 1
    BY SlotFacts
  <1>4. NoFile \in Entry
    BY <1>1, <1>3, SlotFacts DEF NoFile, Entry, FileType
  <1> QED BY <1>1, <1>2, <1>4, SlotFacts

----------------------------------------------------------------------------
\* What fs_add_file does when it takes the file.

Accepted(name, content, type) ==
    fs_add_file(name, content, type) /\ AddCode(name, content) = 0

LEMMA AcceptedArgs ==
    ASSUME TableType, NEW name \in Names, NEW content \in Contents, NEW type \in FileType,
           Accepted(name, content, type)
    PROVE  /\ fs_initialized /\ file_count \in Slots
           /\ Len(name) < FS_MAX_FILENAME
           /\ Len(content) \in 0 .. FS_MAX_FILESIZE - 1
           /\ fs_find_file(name) = {}
  <1>1. fs_initialized /\ ~(file_count >= FS_MAX_FILES)
    BY DEF Accepted, AddCode
  <1>2. ~TooLong(name, content)
    BY <1>1 DEF Accepted, AddCode
  <1>3. fs_find_file(name) = {}
    BY <1>1, <1>2 DEF Accepted, AddCode
  <1>4. file_count \in Slots
    BY <1>1, SlotFacts DEF TableType
  <1>5. Len(name) \in Nat /\ Len(content) \in Nat
    BY ArgFacts, StringBytes
  <1>6. Len(name) < FS_MAX_FILENAME /\ Len(content) \in 0 .. FS_MAX_FILESIZE - 1
    BY <1>2, <1>5, SlotFacts DEF TooLong
  <1> QED BY <1>1, <1>3, <1>4, <1>6

LEMMA AcceptedTable ==
    ASSUME TableType, NEW name \in Names, NEW content \in Contents, NEW type \in FileType,
           Accepted(name, content, type)
    PROVE  /\ file_count' = file_count + 1 /\ fs_initialized' = fs_initialized
           /\ files' = [files EXCEPT ![file_count] =
                 [name |-> fs_strcpy(files[file_count].name, name), size |-> Len(content),
                  type |-> type, data |-> DataOffset(file_count)]]
           /\ file_data' = [i \in Offsets |->
                 IF i - DataOffset(file_count) \in 0 .. Len(content) - 1
                 THEN content[i - DataOffset(file_count) + 1] ELSE file_data[i]]
  BY DEF Accepted, fs_add_file

\* The new file is what was given, in its slot.
LEMMA AcceptedNew ==
    ASSUME TableType, NEW name \in Names, NEW content \in Contents, NEW type \in FileType,
           Accepted(name, content, type), NEW c, c = file_count
    PROVE  /\ StringIn(files'[c].name) = name
           /\ BytesOf(c)' = content
           /\ files'[c].size = Len(content)
           /\ files'[c].type = type
           /\ files'[c].data = DataOffset(c)
           /\ files'[c] \in Entry
           /\ \E k \in NameField : files'[c].name[k] = NUL
  <1> DEFINE d == DataOffset(c)
  <1>1. /\ c \in Slots /\ Len(name) < FS_MAX_FILENAME
        /\ Len(content) \in 0 .. FS_MAX_FILESIZE - 1
        /\ name \in Seq(Byte) /\ content \in Seq(Byte)
    BY AcceptedArgs, ArgFacts
  <1>2. files'[c] = [name |-> fs_strcpy(files[c].name, name), size |-> Len(content),
                     type |-> type, data |-> d]
    BY <1>1, AcceptedTable DEF TableType
  <1>3. files[c].name \in [NameField -> Text]
    BY <1>1 DEF TableType, Entry
  <1>4. d \in Offsets /\ d \in Nat
    <2>1. 0 \in 0 .. FS_MAX_FILESIZE - 1
      BY SlotFacts
    <2>2. d \in Nat /\ d + 0 \in Offsets
      BY <1>1, <2>1, OffsetIn
    <2> QED BY <2>2
  <1>5. files'[c] \in Entry
    BY <1>1, <1>2, <1>3, <1>4, StrcpyField DEF Entry
  <1>6. StringIn(files'[c].name) = name /\ \E k \in NameField : files'[c].name[k] = NUL
    <2>1. files'[c].name = fs_strcpy(files[c].name, name)
      BY <1>2
    <2>2. /\ StringIn(fs_strcpy(files[c].name, name)) = name
          /\ \E k \in NameField : fs_strcpy(files[c].name, name)[k] = NUL
      BY <1>1, <1>3, StrcpyReads
    <2> QED BY <2>1, <2>2
  <1>7. \A k \in 1 .. Len(content) : file_data'[d + k - 1] = content[k]
    <2> SUFFICES ASSUME NEW k \in 1 .. Len(content) PROVE file_data'[d + k - 1] = content[k]
      OBVIOUS
    <2>1. k - 1 \in 0 .. FS_MAX_FILESIZE - 1 /\ k - 1 \in 0 .. Len(content) - 1
      BY <1>1, SlotFacts
    <2>2. d + (k - 1) \in Offsets
      BY <1>1, <2>1, OffsetIn
    <2>3. d + k - 1 \in Offsets /\ (d + k - 1) - d = k - 1 /\ ((d + k - 1) - d) + 1 = k
      BY <1>4, <2>1, <2>2
    <2> HIDE DEF d
    <2>4. file_data' = [i \in Offsets |->
                 IF i - d \in 0 .. Len(content) - 1 THEN content[i - d + 1] ELSE file_data[i]]
      BY AcceptedTable DEF d
    <2> QED BY <2>1, <2>3, <2>4
  <1>8. BytesOf(c)' = [k \in 1 .. Len(content) |-> content[k]]
    <2>1. files'[c].size = Len(content) /\ files'[c].data = d
      BY <1>2
    <2>2. BytesOf(c)' = [k \in 1 .. Len(content) |-> file_data'[d + k - 1]]
      BY <2>1 DEF BytesOf
    <2> HIDE DEF d
    <2> QED BY <2>2, <1>7
  <1> QED BY <1>1, <1>2, <1>5, <1>6, <1>8, StringBytes

\* The files before it are what they were.
LEMMA AcceptedOld ==
    ASSUME TableType, AreaInv,
           NEW name \in Names, NEW content \in Contents, NEW type \in FileType,
           Accepted(name, content, type), NEW i \in Slots, i < file_count
    PROVE  files'[i] = files[i] /\ BytesOf(i)' = BytesOf(i)
  <1>1. file_count \in Slots /\ file_count \in Nat /\ i \in Nat /\ i # file_count
    BY AcceptedArgs, SlotFacts
  <1>2. files'[i] = files[i] /\ files[i] \in Entry
    BY <1>1, AcceptedTable DEF TableType
  <1>3. files[i].data = DataOffset(i) /\ files[i].size \in 0 .. FS_MAX_FILESIZE - 1
    BY <1>2 DEF AreaInv, Entry
  <1>4. DataOffset(i) \in Nat /\ DataOffset(file_count) \in Nat
    BY <1>1, SlotFacts DEF DataOffset
  <1>5. ASSUME NEW k \in 1 .. files[i].size
        PROVE  file_data'[files[i].data + k - 1] = file_data[files[i].data + k - 1]
    <2> DEFINE at == files[i].data + k - 1
    <2>1. k - 1 \in 0 .. FS_MAX_FILESIZE - 1 /\ at = DataOffset(i) + (k - 1)
      BY <1>3, <1>4, SlotFacts
    <2>2. at \in Offsets
      BY <2>1, OffsetIn
    <2>3. at < DataOffset(file_count) /\ at \in Nat
      BY <1>1, <1>4, <2>1, AreasApart
    <2>4. at - DataOffset(file_count) \notin 0 .. Len(content) - 1
      BY <1>4, <2>3
    <2> HIDE DEF at
    <2>5. file_data'[at] = file_data[at]
      BY <2>2, <2>4, AcceptedTable
    <2> QED BY <2>5 DEF at
  <1> QED BY <1>2, <1>5 DEF BytesOf
----------------------------------------------------------------------------
\* Each operation keeps the invariant.

\* Names are unique, so that the first file of a name is the only one.
LEMMA FoundIs ==
    ASSUME TableType, NamesInv, fs_initialized, NEW name
    PROVE  fs_find_file(name) = {i \in Slots : i < file_count /\ StringIn(files[i].name) = name}
  <1>1. ASSUME NEW i \in Slots, i < file_count, NEW j \in 0 .. i - 1
        PROVE  StringIn(files[j].name) # StringIn(files[i].name)
    <2>1. j \in Slots /\ j < i
      BY SlotFacts
    <2> QED BY <1>1, <2>1 DEF NamesInv
  <1> QED BY <1>1 DEF fs_find_file

\* All of the table but the demo files.
TableInv == TableType /\ ClosedInv /\ AreaInv /\ NamesInv

LEMMA TableStays ==
    ASSUME TableInv, UNCHANGED <<fs_initialized, file_count, files, file_data>>
    PROVE  TableInv'
  BY DEF TableInv, TableType, ClosedInv, AreaInv, NamesInv

LEMMA AcceptedKeeps ==
    ASSUME TableInv, NEW name \in Names, NEW content \in Contents, NEW type \in FileType,
           Accepted(name, content, type)
    PROVE  TableInv'
  <1> PICK c : c = file_count
    OBVIOUS
  <1>1. TableType /\ AreaInv /\ NamesInv
    BY DEF TableInv
  <1>2. /\ c \in Slots /\ c \in Nat /\ fs_initialized /\ fs_find_file(name) = {}
        /\ Len(content) \in Nat /\ content \in Seq(Byte)
    <2>1. file_count \in Slots /\ fs_initialized /\ fs_find_file(name) = {}
      BY <1>1, AcceptedArgs
    <2>2. Len(content) \in Nat /\ content \in Seq(Byte)
      BY ArgFacts, StringBytes
    <2> QED BY <2>1, <2>2, SlotFacts
  <1>3. /\ file_count' = c + 1 /\ fs_initialized'
        /\ \A i \in Slots : i < file_count' => i < c \/ i = c
    <2>1. file_count' = c + 1
      BY <1>1, AcceptedTable
    <2>2. fs_initialized' = fs_initialized
      BY <1>1, AcceptedTable
    <2>3. \A i \in Slots : i < file_count' => i < c \/ i = c
      BY <1>2, <2>1, SlotFacts
    <2> QED BY <1>2, <2>1, <2>2, <2>3
  <1>4. /\ files'[c] \in Entry /\ \E k \in NameField : files'[c].name[k] = NUL
        /\ files'[c].data = DataOffset(c) /\ StringIn(files'[c].name) = name
    BY <1>1, AcceptedNew
  <1>5. \A i \in Slots : i # c => files'[i] = files[i]
    BY <1>1, AcceptedTable DEF TableType
  <1>6. files' \in [Slots -> Entry]
    <2>1. files' = [i \in Slots |-> files'[i]]
      BY <1>1, AcceptedTable DEF TableType
    <2>2. \A i \in Slots : files'[i] \in Entry
      BY <1>1, <1>4, <1>5 DEF TableType
    <2> QED BY <2>1, <2>2
  <1>7. file_data' \in [Offsets -> Text]
    <2> DEFINE d == DataOffset(file_count)
    <2>1. \A i \in Int : i - d \in 0 .. Len(content) - 1 => content[i - d + 1] \in Text
      <3>1. d \in Int
        BY <1>2, SlotFacts DEF DataOffset
      <3> HIDE DEF d
      <3>2. ASSUME NEW i \in Int, i - d \in 0 .. Len(content) - 1
            PROVE  i - d + 1 \in 1 .. Len(content)
        BY <3>1, <3>2, <1>2
      <3> QED BY <3>2, <1>2, StringBytes DEF Text
    <2>2. \A i \in Offsets : i \in Int /\ file_data[i] \in Text
      BY <1>1 DEF TableType, Offsets
    <2>3. file_data' = [i \in Offsets |->
                 IF i - d \in 0 .. Len(content) - 1 THEN content[i - d + 1] ELSE file_data[i]]
      BY <1>1, AcceptedTable
    <2> HIDE DEF d
    <2> QED BY <2>1, <2>2, <2>3
  <1>8. TableType'
    <2>1. file_count' \in 0 .. FS_MAX_FILES
      BY <1>2, <1>3, SlotFacts
    <2>2. \A i \in Slots : \E k \in NameField : files'[i].name[k] = NUL
      BY <1>1, <1>4, <1>5 DEF TableType
    <2>3. fs_initialized' \in BOOLEAN
      BY <1>1, AcceptedTable DEF TableType
    <2> QED BY <2>1, <2>2, <2>3, <1>6, <1>7 DEF TableType
  <1>9. AreaInv'
    <2>1. \A i \in Slots : i < c => files'[i].data = DataOffset(i)
      BY <1>1, <1>2, <1>5, SlotFacts DEF AreaInv
    <2> QED BY <1>3, <1>4, <2>1 DEF AreaInv
  <1>10. NamesInv'
    <2> SUFFICES ASSUME NEW i \in Slots, NEW j \in Slots, i < j, j < file_count'
                 PROVE  StringIn(files'[i].name) # StringIn(files'[j].name)
      BY DEF NamesInv
    <2>1. i < c /\ i # c /\ files'[i] = files[i]
      BY <1>2, <1>3, <1>5, SlotFacts
    <2>2. CASE j < c
      <3>1. files'[j] = files[j]
        BY <2>2, <1>2, <1>5, SlotFacts
      <3> QED BY <2>1, <2>2, <3>1, <1>1 DEF NamesInv
    <2>3. CASE j = c
      <3>1. StringIn(files[i].name) # name
        BY <1>1, <1>2, <2>1, FoundIs
      <3> QED BY <2>1, <2>3, <3>1, <1>4
    <2> QED BY <1>3, <2>2, <2>3
  <1> QED BY <1>3, <1>8, <1>9, <1>10 DEF TableInv, ClosedInv

LEMMA AddEither ==
    ASSUME NEW name, NEW content, NEW type, fs_add_file(name, content, type)
    PROVE  \/ Accepted(name, content, type)
           \/ /\ AddCode(name, content) # 0
              /\ UNCHANGED <<fs_initialized, file_count, files, file_data>>
  BY DEF fs_add_file, Accepted

\* Whatever fs_add_file does, the files that are there stay.
LEMMA AddKeepsFiles ==
    ASSUME TableInv, NEW name \in Names, NEW content \in Contents, NEW type \in FileType,
           fs_add_file(name, content, type), NEW i \in Slots, i < file_count
    PROVE  i < file_count' /\ files'[i] = files[i] /\ BytesOf(i)' = BytesOf(i)
  <1>1. CASE Accepted(name, content, type)
    <2>1. files'[i] = files[i] /\ BytesOf(i)' = BytesOf(i)
      BY <1>1, AcceptedOld DEF TableInv
    <2>2. file_count' = file_count + 1
      BY <1>1, AcceptedTable DEF TableInv
    <2>3. i \in Nat /\ file_count \in Nat
      BY SlotFacts DEF TableInv, TableType
    <2> QED BY <2>1, <2>2, <2>3
  <1>2. CASE UNCHANGED <<fs_initialized, file_count, files, file_data>>
    BY <1>2 DEF BytesOf
  <1> QED BY <1>1, <1>2, AddEither

LEMMA AddKeepsTable ==
    ASSUME TableInv, NEW name \in Names, NEW content \in Contents, NEW type \in FileType,
           fs_add_file(name, content, type)
    PROVE  TableInv'
  BY AddEither, AcceptedKeeps, TableStays

LEMMA AddKeepsLoaded ==
    ASSUME TableInv, NEW name \in Names, NEW content \in Contents, NEW type \in FileType,
           fs_add_file(name, content, type), NEW n \in 0 .. Len(DemoFiles), Loaded(n)
    PROVE  Loaded(n)'
  <1>0. /\ file_count \in 0 .. FS_MAX_FILES /\ FS_MAX_FILES \in Nat
        /\ n \in Nat /\ file_count >= n
    <2>1. n \in Nat
      BY ArgFacts
    <2> QED BY <2>1, SlotFacts DEF TableInv, TableType, Loaded
  <1>1. ASSUME NEW i \in 1 .. n
        PROVE  i - 1 \in Slots /\ i - 1 < file_count
    <2>1. i - 1 \in Nat /\ i - 1 < file_count /\ i - 1 < FS_MAX_FILES
      BY <1>0
    <2> QED BY <2>1, SlotFacts
  <1>2. \A i \in 1 .. n : files'[i - 1] = files[i - 1] /\ BytesOf(i - 1)' = BytesOf(i - 1)
    BY <1>1, AddKeepsFiles
  <1>3. file_count' >= n
    <2>1. file_count' = file_count \/ file_count' = file_count + 1
      BY AddEither, AcceptedTable DEF TableInv
    <2> QED BY <1>0, <2>1
  <1> QED BY <1>2, <1>3 DEF Loaded

LEMMA LoadedStays ==
    ASSUME NEW n, Loaded(n), UNCHANGED <<file_count, files, file_data>>
    PROVE  Loaded(n)'
  BY DEF Loaded, BytesOf

\* fs_init finds no file and leaves none.
LEMMA InitKeeps ==
    ASSUME FsInv, fs_init
    PROVE  FsInv'
  <1>1. \A i \in Slots : files'[i] = NoFile
    BY DEF fs_init
  <1>2. file_count' = 0 /\ \A i \in Slots : ~(i < file_count')
    BY SlotFacts DEF fs_init
  <1>3. fs_initialized' = TRUE
    BY DEF fs_init
  <1>4. TableType'
    <2>1. files' \in [Slots -> Entry]
      BY NoFileEntry DEF fs_init
    <2>2. file_data' \in [Offsets -> Text]
      BY SlotFacts DEF fs_init
    <2>3. \A i \in Slots : \E k \in NameField : files'[i].name[k] = NUL
      BY <1>1, NoFileEntry
    <2>4. file_count' \in 0 .. FS_MAX_FILES
      BY <1>2, SlotFacts
    <2> QED BY <1>3, <2>1, <2>2, <2>3, <2>4 DEF TableType
  <1>5. ClosedInv' /\ AreaInv' /\ NamesInv'
    BY <1>2 DEF ClosedInv, AreaInv, NamesInv
  <1>6. DemoInv' /\ demo' \in 0 .. Len(DemoFiles)
    <2>1. CASE DemoFiles = <<>>
      <3>1. Len(DemoFiles) = 0 /\ demo' = 0
        BY <2>1 DEF fs_init
      <3>2. Loaded(Len(DemoFiles))'
        BY <1>2, <3>1 DEF Loaded
      <3> QED BY <3>1, <3>2 DEF DemoInv
    <2>2. CASE DemoFiles # <<>>
      <3>1. demo' = 1
        BY <2>2 DEF fs_init
      <3>2. Len(DemoFiles) >= 1 /\ Len(DemoFiles) \in Nat
        BY <2>2, FileSystemConstants
      <3>3. demo' >= 1 /\ file_count' = demo' - 1 /\ demo' - 1 = 0 /\ demo' \in 0 .. Len(DemoFiles)
        BY <1>2, <3>1, <3>2
      <3>4. Loaded(demo - 1)'
        BY <1>2, <3>3 DEF Loaded
      <3> QED BY <3>3, <3>4 DEF DemoInv
    <2> QED BY <2>1, <2>2
  <1> QED BY <1>4, <1>5, <1>6 DEF FsInv

\* A call of fs_add_file outside fs_create_demo_files.
LEMMA AddKeeps ==
    ASSUME FsInv, NEW name \in Names, NEW content \in Contents, NEW type \in FileType,
           AddFile(name, content, type)
    PROVE  FsInv'
  <1>1. TableInv /\ fs_add_file(name, content, type) /\ demo = 0 /\ demo' = demo
    BY DEF FsInv, TableInv, AddFile
  <1>2. TableInv'
    BY <1>1, AddKeepsTable
  <1>3. fs_initialized' = fs_initialized
    BY <1>1 DEF fs_add_file
  <1>4. Len(DemoFiles) \in 0 .. Len(DemoFiles)
    BY ArgFacts
  <1>5. ASSUME fs_initialized
        PROVE  Loaded(Len(DemoFiles))'
    <2>1. Loaded(Len(DemoFiles))
      BY <1>1, <1>5 DEF FsInv, DemoInv
    <2> QED BY <1>1, <1>4, <2>1, AddKeepsLoaded
  <1>6. DemoInv'
    BY <1>3, <1>5 DEF DemoInv
  <1> QED BY <1>1, <1>2, <1>6 DEF FsInv, TableInv

\* Calls that only read.
LEMMA ReadKeeps ==
    ASSUME FsInv, UNCHANGED <<fs_initialized, file_count, files, file_data, demo>>
    PROVE  FsInv'
  <1>1. TableInv'
    BY TableStays DEF FsInv, TableInv
  <1>2. DemoInv'
    BY LoadedStays DEF FsInv, DemoInv
  <1> QED BY <1>1, <1>2 DEF FsInv, TableInv

\* fs_create_demo_files called once more finds all its files.
LEMMA AgainKeeps ==
    ASSUME FsInv, DemoAgain
    PROVE  FsInv'
  <1>1. demo = 0 /\ UNCHANGED <<fs_initialized, file_count, files, file_data>>
    BY DEF DemoAgain
  <1>2. TableInv'
    BY <1>1, TableStays DEF FsInv, TableInv
  <1>3. demo' \in 0 .. Len(DemoFiles)
    <2>1. Len(DemoFiles) >= 1 /\ Len(DemoFiles) \in Nat
      BY FileSystemConstants DEF DemoAgain
    <2> QED BY <2>1 DEF DemoAgain
  <1>4. ASSUME fs_initialized
        PROVE  Loaded(Len(DemoFiles))'
    <2>1. Loaded(Len(DemoFiles))
      BY <1>1, <1>4 DEF FsInv, DemoInv
    <2> QED BY <1>1, <2>1, LoadedStays
  <1>5. DemoInv'
    BY <1>1, <1>4 DEF DemoInv
  <1> QED BY <1>2, <1>3, <1>5 DEF FsInv, TableInv

\* While fs_init loads them, no demo file is refused.
LEMMA DemoAccepted ==
    ASSUME TableInv, fs_initialized, NEW d \in 1 .. Len(DemoFiles), file_count = d - 1,
           Loaded(d - 1)
    PROVE  AddCode(DemoFiles[d].name, DemoFiles[d].content) = 0
  <1>1. /\ d \in Nat /\ Len(DemoFiles) \in Nat /\ d <= Len(DemoFiles)
        /\ Len(DemoFiles) <= FS_MAX_FILES
    BY ArgFacts, DemoFilesFit
  <1>2. ~(file_count >= FS_MAX_FILES)
    BY <1>1, SlotFacts
  <1>3. ~TooLong(DemoFiles[d].name, DemoFiles[d].content)
    <2>1. Len(DemoFiles[d].name) \in Nat /\ Len(DemoFiles[d].content) \in Nat
      BY ArgFacts, StringBytes
    <2>2. Len(DemoFiles[d].name) < FS_MAX_FILENAME /\ Len(DemoFiles[d].content) < FS_MAX_FILESIZE
      BY DemoFilesFit
    <2> QED BY <2>1, <2>2, SlotFacts DEF TooLong
  <1>4. fs_find_file(DemoFiles[d].name) = {}
    <2>1. ASSUME NEW i \in Slots, i < file_count
          PROVE  StringIn(files[i].name) # DemoFiles[d].name
      <3>1. i + 1 \in 1 .. d - 1 /\ (i + 1) - 1 = i
        BY <1>1, <2>1, SlotFacts
      <3>2. StringIn(files[(i + 1) - 1].name) = DemoFiles[i + 1].name
        BY <3>1 DEF Loaded
      <3>3. DemoFiles[i + 1].name # DemoFiles[d].name
        BY <3>1, DemoFilesFit
      <3> QED BY <3>1, <3>2, <3>3
    <2> QED BY <2>1 DEF fs_find_file
  <1> QED BY <1>2, <1>3, <1>4 DEF AddCode

LEMMA DemoKeeps ==
    ASSUME FsInv, DemoAdd
    PROVE  FsInv'
  <1> PICK d : d = demo
    OBVIOUS
  <1> DEFINE name == DemoFiles[d].name
             content == DemoFiles[d].content
             all == Len(DemoFiles)
  <1>1. /\ TableInv /\ d \in 1 .. all /\ d \in Nat /\ all \in Nat /\ d <= all
        /\ fs_add_file(name, content, "TEXT")
        /\ name \in Names /\ content \in Contents /\ "TEXT" \in FileType
    BY ArgFacts DEF FsInv, TableInv, DemoAdd, FileType
  <1>2. TableInv' /\ fs_initialized' = fs_initialized
    BY <1>1, AddKeepsTable DEF fs_add_file
  <1>3. demo' = IF d = all THEN 0 ELSE d + 1
    BY DEF DemoAdd
  <1>4. demo' \in 0 .. all
    BY <1>1, <1>3
  <1>5. ASSUME Loaded(all)
        PROVE  Loaded(all)'
    <2>1. all \in 0 .. all
      BY <1>1
    <2> QED BY <1>1, <1>5, <2>1, AddKeepsLoaded
  <1>6. ASSUME fs_initialized, file_count = d - 1, Loaded(d - 1)
        PROVE  file_count' = d /\ Loaded(d)'
    <2>1. Accepted(name, content, "TEXT")
      BY <1>1, <1>6, DemoAccepted DEF Accepted
    <2>2. file_count' = d
      <3>1. file_count' = file_count + 1
        BY <1>1, <2>1, AcceptedTable DEF TableInv
      <3> QED BY <1>1, <1>6, <3>1
    <2>3. StringIn(files'[d - 1].name) = name /\ BytesOf(d - 1)' = content
      BY <1>1, <1>6, <2>1, AcceptedNew DEF TableInv
    <2>4. Loaded(d - 1)'
      <3>1. d - 1 \in 0 .. all
        BY <1>1
      <3> QED BY <1>1, <1>6, <3>1, AddKeepsLoaded
    <2>5. \A i \in 1 .. d : i \in 1 .. d - 1 \/ i = d
      BY <1>1
    <2> QED BY <1>1, <2>2, <2>3, <2>4, <2>5 DEF Loaded
  <1>7. DemoInv'
    <2> SUFFICES ASSUME fs_initialized
                 PROVE  \/ Loaded(all)'
                        \/ demo' >= 1 /\ file_count' = demo' - 1 /\ Loaded(demo - 1)'
      BY <1>2 DEF DemoInv
    <2>1. CASE Loaded(all)
      BY <1>5, <2>1
    <2>2. CASE file_count = d - 1 /\ Loaded(d - 1)
      <3>1. file_count' = d /\ Loaded(d)'
        BY <1>6, <2>2
      <3>2. CASE d = all
        BY <3>1, <3>2
      <3>3. CASE d # all
        <4>1. demo' = d + 1 /\ demo' - 1 = d /\ demo' >= 1
          BY <1>1, <1>3, <3>3
        <4>2. Loaded(demo - 1)'
          BY <3>1, <4>1 DEF Loaded
        <4> QED BY <3>1, <4>1, <4>2
      <3> QED BY <3>2, <3>3
    <2> QED BY <2>1, <2>2 DEF FsInv, DemoInv
  <1> QED BY <1>2, <1>4, <1>7 DEF FsInv, TableInv

LEMMA StartInv == FsInit => FsInv
  <1> SUFFICES ASSUME FsInit PROVE FsInv
    OBVIOUS
  <1>1. \A i \in Slots : files[i] = NoFile /\ ~(i < file_count)
    BY SlotFacts DEF FsInit
  <1>2. files \in [Slots -> Entry] /\ file_data \in [Offsets -> Text]
    BY NoFileEntry, SlotFacts DEF FsInit
  <1>3. \A i \in Slots : \E k \in NameField : files[i].name[k] = NUL
    BY <1>1, NoFileEntry
  <1>4. file_count \in 0 .. FS_MAX_FILES /\ demo \in 0 .. Len(DemoFiles)
    BY SlotFacts, ArgFacts DEF FsInit
  <1>5. TableType
    BY <1>2, <1>3, <1>4 DEF TableType, FsInit
  <1>6. ClosedInv /\ AreaInv /\ NamesInv /\ DemoInv
    BY <1>1 DEF ClosedInv, AreaInv, NamesInv, DemoInv, FsInit
  <1> QED BY <1>4, <1>5, <1>6 DEF FsInv

LEMMA StepInv ==
    ASSUME FsInv, [FsNext]_fsVars
    PROVE  FsInv'
  <1>1. CASE fs_init
    BY <1>1, InitKeeps
  <1>2. CASE DemoAgain
    BY <1>2, AgainKeeps
  <1>3. CASE DemoAdd
    BY <1>3, DemoKeeps
  <1>4. CASE \E name \in Names, content \in Contents, type \in FileType :
                AddFile(name, content, type)
    BY <1>4, AddKeeps
  <1>5. CASE \E name \in Names : fs_read(name)
    BY <1>5, ReadKeeps DEF fs_read
  <1>6. CASE fs_list
    BY <1>6, ReadKeeps DEF fs_list
  <1>7. CASE UNCHANGED fsVars
    BY <1>7, ReadKeeps DEF fsVars
  <1> QED BY <1>1, <1>2, <1>3, <1>4, <1>5, <1>6, <1>7 DEF FsNext, fs_create_demo_files

LEMMA AlwaysInv == FsSpec => []FsInv
  BY StartInv, StepInv, PTL DEF FsSpec

\* The types of fs.c's statics hold in every reachable state, and every name
\* field keeps a NUL inside its FS_MAX_FILENAME bytes, whatever names
\* fs_add_file is given.
THEOREM FsTypeCorrect == FsSpec => []FsTypeOK
  <1>1. FsInv => FsTypeOK
    BY DEF FsInv, TableType, FsTypeOK, Entry, Text
  <1> QED BY <1>1, AlwaysInv, PTL

\* Once fs_init has returned, the demo files of fs_create_demo_files are the
\* first of the table, with their names and bytes, and stay there; that none is
\* refused on the way needs DemoFilesFit and that names stay unique.
THEOREM DemoFilesLoaded == FsSpec => []DemoLoaded
  <1>1. ASSUME FsInv
        PROVE  DemoLoaded
    <2> SUFFICES ASSUME fs_initialized, demo = 0
                 PROVE  Loaded(Len(DemoFiles))
      BY DEF DemoLoaded, Loaded
    <2> QED BY <1>1 DEF FsInv, DemoInv
  <1> QED BY <1>1, AlwaysInv, PTL

\* No step changes the entry or the bytes of a file that is there: fs_add_file
\* writes into an area no other file has, and fs_init clears the table only when
\* it is empty.
THEOREM FilesKept == FsSpec => ReadOnly
  <1> DEFINE Kept == \A i \in Slots : i < file_count =>
                 i < file_count' /\ files'[i] = files[i] /\ BytesOf(i)' = BytesOf(i)
  <1>1. ASSUME FsInv, FsNext
        PROVE  Kept
    <2> SUFFICES ASSUME NEW i \in Slots, i < file_count
                 PROVE  i < file_count' /\ files'[i] = files[i] /\ BytesOf(i)' = BytesOf(i)
      OBVIOUS
    <2>1. TableInv
      BY <1>1 DEF FsInv, TableInv
    <2>2. CASE fs_init
      BY <2>1, <2>2, SlotFacts DEF fs_init, TableInv, ClosedInv
    <2>3. CASE UNCHANGED <<file_count, files, file_data>>
      BY <2>3 DEF BytesOf
    <2>4. CASE DemoAdd
      <3>1. DemoFiles[demo].name \in Names /\ DemoFiles[demo].content \in Contents
        BY <2>4, ArgFacts DEF DemoAdd
      <3> QED BY <2>1, <2>4, <3>1, AddKeepsFiles DEF DemoAdd, FileType
    <2>5. CASE \E name \in Names, content \in Contents, type \in FileType :
                  AddFile(name, content, type)
      BY <2>1, <2>5, AddKeepsFiles DEF AddFile
    <2> QED BY <1>1, <2>2, <2>3, <2>4, <2>5
            DEF FsNext, fs_create_demo_files, DemoAgain, fs_read, fs_list
  <1>2. ASSUME FsInv, [FsNext]_fsVars
        PROVE  [Kept]_fsVars
    BY <1>1, <1>2
  <1> QED BY <1>2, AlwaysInv, PTL DEF FsSpec, ReadOnly
----------------------------------------------------------------------------
\* The table as the sequence of the file store.

LEMMA StoreLen ==
    ASSUME TableType
    PROVE  /\ StoredFiles \in Seq({StoredFiles[i] : i \in 1 .. file_count})
           /\ Len(StoredFiles) = file_count /\ file_count \in Nat
           /\ DOMAIN StoredFiles = 1 .. file_count
  <1>1. file_count \in Nat
    BY SlotFacts DEF TableType
  <1>2. DOMAIN StoredFiles = 1 .. file_count
        /\ StoredFiles = [i \in 1 .. file_count |-> StoredFiles[i]]
    BY DEF StoredFiles
  <1> HIDE DEF StoredFiles
  <1>3. StoredFiles \in Seq({StoredFiles[i] : i \in 1 .. file_count})
    BY <1>1, <1>2
  <1>4. Len(StoredFiles) = file_count
    BY <1>1, <1>2, <1>3
  <1> QED BY <1>1, <1>2, <1>3, <1>4

LEMMA StoreAt ==
    ASSUME TableType, NEW i \in Slots, i < file_count
    PROVE  /\ i + 1 \in 1 .. Len(StoredFiles)
           /\ StoredFiles[i + 1].name = StringIn(files[i].name)
           /\ StoredFiles[i + 1].content = BytesOf(i)
           /\ StoredFiles[i + 1].type = files[i].type
           /\ Len(BytesOf(i)) = files[i].size
  <1>1. i + 1 \in 1 .. file_count /\ (i + 1) - 1 = i
    BY SlotFacts DEF TableType
  <1>2. files[i].size \in Nat
    BY SlotFacts DEF TableType, Entry
  <1>3. Len(BytesOf(i)) = files[i].size
    BY <1>2 DEF BytesOf
  <1>4. StoredFiles[i + 1] = [name |-> StringIn(files[i].name), content |-> BytesOf(i),
                              type |-> files[i].type]
    BY <1>1 DEF StoredFiles
  <1>5. i + 1 \in 1 .. Len(StoredFiles)
    BY <1>1, StoreLen
  <1> HIDE DEF StoredFiles
  <1> QED BY <1>3, <1>4, <1>5

\* Every file of the store is that of a slot.
LEMMA SlotAt ==
    ASSUME TableType, NEW k \in 1 .. Len(StoredFiles)
    PROVE  k - 1 \in Slots /\ k - 1 < file_count /\ (k - 1) + 1 = k
  BY StoreLen, SlotFacts DEF TableType

LEMMA FoundHas ==
    ASSUME TableInv, fs_initialized, NEW name
    PROVE  fs_find_file(name) # {} <=> FS!Has(name)
  <1>1. TableType /\ NamesInv
    BY DEF TableInv
  <1>2. fs_find_file(name) = {i \in Slots : i < file_count /\ StringIn(files[i].name) = name}
    BY <1>1, FoundIs
  <1>3. ASSUME NEW i \in fs_find_file(name)
        PROVE  FS!Has(name)
    <2>1. i \in Slots /\ i < file_count /\ StringIn(files[i].name) = name
      BY <1>2, <1>3
    <2>2. i + 1 \in 1 .. Len(StoredFiles) /\ StoredFiles[i + 1].name = name
      BY <1>1, <2>1, StoreAt
    <2> QED BY <2>2 DEF FS!Has
  <1>4. ASSUME FS!Has(name)
        PROVE  fs_find_file(name) # {}
    <2>1. PICK k \in 1 .. Len(StoredFiles) : StoredFiles[k].name = name
      BY <1>4 DEF FS!Has
    <2>2. k - 1 \in Slots /\ k - 1 < file_count /\ (k - 1) + 1 = k
      BY <1>1, SlotAt
    <2>3. StoredFiles[(k - 1) + 1].name = StringIn(files[k - 1].name)
      BY <1>1, <2>2, StoreAt
    <2>4. k - 1 \in fs_find_file(name)
      BY <1>2, <2>1, <2>2, <2>3
    <2> QED BY <2>4
  <1> QED BY <1>3, <1>4

LEMMA CodeIs ==
    ASSUME TableInv, NEW name, NEW content
    PROVE  AddCode(name, content) = FS!Refusal(name, content)
  <1>1. file_count >= FS_MAX_FILES <=> Len(StoredFiles) = FS_MAX_FILES
    BY StoreLen, SlotFacts DEF TableInv, TableType
  <1>2. fs_initialized => (fs_find_file(name) # {} <=> FS!Has(name))
    BY FoundHas
  <1> QED BY <1>1, <1>2 DEF AddCode, TooLong, FS!Refusal

LEMMA StoreStays ==
    ASSUME UNCHANGED <<file_count, files, file_data>>
    PROVE  StoredFiles' = StoredFiles
  BY DEF StoredFiles, BytesOf

LEMMA AppendIs ==
    ASSUME NEW S, NEW s \in Seq(S), NEW x
    PROVE  Append(s, x) = [k \in 1 .. Len(s) + 1 |-> IF k = Len(s) + 1 THEN x ELSE s[k]]
  <1> DEFINE T == S \cup {x}
  <1>1. s \in Seq(T) /\ x \in T /\ Len(s) \in Nat
    OBVIOUS
  <1> HIDE DEF T
  <1>2. /\ Append(s, x) \in Seq(T) /\ Len(Append(s, x)) = Len(s) + 1
        /\ \A k \in 1 .. Len(s) : Append(s, x)[k] = s[k]
        /\ Append(s, x)[Len(s) + 1] = x
    BY <1>1
  <1>3. \A q \in Seq(T) : q = [k \in 1 .. Len(q) |-> q[k]]
    OBVIOUS
  <1>4. \A k \in 1 .. Len(s) + 1 : k = Len(s) + 1 \/ k \in 1 .. Len(s)
    BY <1>1
  <1>5. Append(s, x) = [k \in 1 .. Len(s) + 1 |-> Append(s, x)[k]]
    BY <1>2, <1>3
  <1>6. \A k \in 1 .. Len(s) + 1 : Append(s, x)[k] = IF k = Len(s) + 1 THEN x ELSE s[k]
    BY <1>2, <1>4
  <1> QED BY <1>5, <1>6

\* A file taken by fs_add_file is appended to the store.
LEMMA StoreAppends ==
    ASSUME TableInv, NEW name \in Names, NEW content \in Contents, NEW type \in FileType,
           Accepted(name, content, type)
    PROVE  StoredFiles' = Append(StoredFiles, [name |-> name, content |-> content, type |-> type])
  <1> PICK c : c = file_count
    OBVIOUS
  <1> DEFINE new == [name |-> name, content |-> content, type |-> type]
  <1>1. TableType /\ AreaInv /\ TableType'
    BY AcceptedKeeps DEF TableInv
  <1>2. c \in Slots /\ c \in Nat
    BY <1>1, AcceptedArgs, SlotFacts
  <1>3. file_count' = c + 1
    BY <1>1, AcceptedTable
  <1>4. DOMAIN StoredFiles' = 1 .. c + 1
    BY <1>3 DEF StoredFiles
  <1>5. StoredFiles'[c + 1] = new
    <2>1. (c + 1) - 1 = c /\ c + 1 \in 1 .. c + 1
      BY <1>2
    <2>2. /\ StringIn(files'[c].name) = name /\ BytesOf(c)' = content
          /\ files'[c].type = type
      BY <1>1, AcceptedNew
    <2> QED BY <1>3, <2>1, <2>2 DEF StoredFiles
  <1>6. ASSUME NEW k \in 1 .. c
        PROVE  StoredFiles'[k] = StoredFiles[k]
    <2>1. k - 1 \in Slots /\ k - 1 < c /\ k \in 1 .. c + 1
      BY <1>2, SlotFacts
    <2>2. files'[k - 1] = files[k - 1] /\ BytesOf(k - 1)' = BytesOf(k - 1)
      BY <1>1, <2>1, AcceptedOld
    <2> QED BY <1>3, <2>1, <2>2 DEF StoredFiles
  <1>7. StoredFiles' = [k \in 1 .. c + 1 |-> StoredFiles'[k]]
    BY <1>3 DEF StoredFiles
  <1>8. Len(StoredFiles) = c
    BY <1>1, StoreLen
  <1>9. Append(StoredFiles, new) = [k \in 1 .. c + 1 |-> IF k = c + 1 THEN new ELSE StoredFiles[k]]
    <2> HIDE DEF new
    <2> QED BY <1>1, <1>8, StoreLen, AppendIs
  <1>10. \A k \in 1 .. c + 1 : k = c + 1 \/ k \in 1 .. c
    BY <1>2
  <1> HIDE DEF new
  <1>11. \A k \in 1 .. c + 1 : StoredFiles'[k] = IF k = c + 1 THEN new ELSE StoredFiles[k]
    BY <1>2, <1>5, <1>6, <1>10
  <1> QED BY <1>7, <1>9, <1>11 DEF new

LEMMA StoreAdds ==
    ASSUME TableInv, NEW name \in Names, NEW content \in Contents, NEW type \in FileType,
           fs_add_file(name, content, type)
    PROVE  FS!Add(name, content, type)
  <1>1. answer' = FS!Code(FS!Refusal(name, content))
    BY CodeIs DEF fs_add_file, FS!Code
  <1>2. fs_initialized' = fs_initialized
    BY DEF fs_add_file
  <1>3. CASE Accepted(name, content, type)
    <2>1. FS!Refusal(name, content) = 0
      BY <1>3, CodeIs DEF Accepted
    <2> QED BY <1>1, <1>2, <1>3, <2>1, StoreAppends DEF FS!Add
  <1>4. CASE /\ AddCode(name, content) # 0
             /\ UNCHANGED <<fs_initialized, file_count, files, file_data>>
    <2>1. FS!Refusal(name, content) # 0
      BY <1>4, CodeIs
    <2> QED BY <1>1, <1>2, <1>4, <2>1, StoreStays DEF FS!Add
  <1> QED BY <1>3, <1>4, AddEither

LEMMA StoreReads ==
    ASSUME TableInv, NEW name \in Names, fs_read(name)
    PROVE  FS!Read(name)
  <1>1. TableType /\ NamesInv /\ ClosedInv
    BY DEF TableInv
  <1>2. StoredFiles' = StoredFiles /\ fs_initialized' = fs_initialized
    BY StoreStays DEF fs_read
  <1>3. CASE fs_find_file(name) = {} /\ answer' = [code |-> -1, bytes |-> <<>>, directory |-> <<>>]
    <2>1. ~FS!Has(name)
      <3>1. CASE fs_initialized
        BY <1>3, <3>1, FoundHas
      <3>2. CASE ~fs_initialized
        <4>1. Len(StoredFiles) = 0
          BY <1>1, <3>2, StoreLen DEF ClosedInv
        <4> QED BY <4>1 DEF FS!Has
      <3> QED BY <3>1, <3>2
    <2> QED BY <1>2, <1>3, <2>1 DEF FS!Read, FS!Code
  <1>4. CASE \E i \in fs_find_file(name) :
                answer' = [code |-> 0, bytes |-> BytesOf(i), directory |-> <<>>]
    <2>1. PICK i \in fs_find_file(name) :
                answer' = [code |-> 0, bytes |-> BytesOf(i), directory |-> <<>>]
      BY <1>4
    <2>2. i \in Slots /\ i < file_count /\ StringIn(files[i].name) = name
      BY DEF fs_find_file
    <2>3. /\ i + 1 \in 1 .. Len(StoredFiles)
          /\ StoredFiles[i + 1].name = name /\ StoredFiles[i + 1].content = BytesOf(i)
      BY <1>1, <2>2, StoreAt
    <2>4. answer' = [FS!Code(0) EXCEPT !.bytes = StoredFiles[i + 1].content]
      BY <2>1, <2>3 DEF FS!Code
    <2> QED BY <1>2, <2>3, <2>4 DEF FS!Read
  <1> QED BY <1>3, <1>4 DEF fs_read

LEMMA StoreLists ==
    ASSUME TableInv, fs_list
    PROVE  FS!List
  <1>1. TableType
    BY DEF TableInv
  <1>2. StoredFiles' = StoredFiles /\ fs_initialized' = fs_initialized
    BY StoreStays DEF fs_list
  <1> DEFINE lines == [i \in 1 .. file_count |->
                 [name |-> StringIn(files[i - 1].name), size |-> files[i - 1].size,
                  type |-> files[i - 1].type]]
             listed == [i \in 1 .. Len(StoredFiles) |->
                 [name |-> StoredFiles[i].name, size |-> Len(StoredFiles[i].content),
                  type |-> StoredFiles[i].type]]
  <1>3. ASSUME NEW k \in 1 .. Len(StoredFiles)
        PROVE  /\ StoredFiles[k].name = StringIn(files[k - 1].name)
               /\ Len(StoredFiles[k].content) = files[k - 1].size
               /\ StoredFiles[k].type = files[k - 1].type
    <2>1. k - 1 \in Slots /\ k - 1 < file_count /\ (k - 1) + 1 = k
      BY <1>1, SlotAt
    <2> QED BY <1>1, <2>1, StoreAt
  <1>4. lines = listed
    BY <1>1, <1>3, StoreLen
  <1>5. answer' = IF ~fs_initialized THEN [code |-> -1, bytes |-> <<>>, directory |-> <<>>]
                  ELSE [code |-> 0, bytes |-> <<>>, directory |-> lines]
    BY DEF fs_list
  <1> HIDE DEF lines, listed
  <1>6. answer' = IF ~fs_initialized THEN FS!Code(-1) ELSE [FS!Code(0) EXCEPT !.directory = listed]
    BY <1>4, <1>5 DEF FS!Code
  <1> QED BY <1>2, <1>6 DEF FS!List, listed

LEMMA StoreOpens ==
    ASSUME TableInv, fs_init
    PROVE  FS!Open
  <1>1. ~fs_initialized /\ fs_initialized' = TRUE /\ answer' = answer
    BY DEF fs_init
  <1>2. file_count = 0 /\ file_count' = 0
    BY <1>1 DEF fs_init, TableInv, ClosedInv
  <1>3. StoredFiles' = StoredFiles
    BY <1>2 DEF StoredFiles
  <1> QED BY <1>1, <1>3 DEF FS!Open

\* The table and the byte array implement the file store: fs_init opens it, each
\* call of fs_add_file, those of fs_create_demo_files included, is one Add, and
\* fs_read and fs_list answer from what was added.
THEOREM StoreImplemented == FsSpec => ImplementsFileStore
  <1>1. FsInit => FS!StoreInit
    <2> SUFFICES ASSUME FsInit PROVE FS!StoreInit
      OBVIOUS
    <2>1. StoredFiles = <<>>
      BY DEF FsInit, StoredFiles
    <2> QED BY <2>1 DEF FsInit, FS!StoreInit, FS!Code
  <1>2. ASSUME FsInv, [FsNext]_fsVars
        PROVE  [FS!StoreNext]_FS!storeVars
    <2>1. TableInv
      BY <1>2 DEF FsInv, TableInv
    <2>2. CASE fs_init
      BY <2>1, <2>2, StoreOpens DEF FS!StoreNext
    <2>3. CASE DemoAgain
      BY <2>3, StoreStays DEF DemoAgain, FS!storeVars
    <2>4. CASE DemoAdd
      <3>1. /\ DemoFiles[demo].name \in Names /\ DemoFiles[demo].content \in Contents
            /\ "TEXT" \in FileType
        BY <2>4, ArgFacts DEF DemoAdd, FileType
      <3>2. FS!Add(DemoFiles[demo].name, DemoFiles[demo].content, "TEXT")
        BY <2>1, <2>4, <3>1, StoreAdds DEF DemoAdd
      <3> QED BY <3>1, <3>2 DEF FS!StoreNext
    <2>5. CASE \E name \in Names, content \in Contents, type \in FileType :
                  AddFile(name, content, type)
      BY <2>1, <2>5, StoreAdds DEF AddFile, FS!StoreNext
    <2>6. CASE \E name \in Names : fs_read(name)
      BY <2>1, <2>6, StoreReads DEF FS!StoreNext
    <2>7. CASE fs_list
      BY <2>1, <2>7, StoreLists DEF FS!StoreNext
    <2>8. CASE UNCHANGED fsVars
      BY <2>8, StoreStays DEF fsVars, FS!storeVars
    <2> QED BY <1>2, <2>2, <2>3, <2>4, <2>5, <2>6, <2>7, <2>8 DEF FsNext, fs_create_demo_files
  <1> QED BY <1>1, <1>2, AlwaysInv, PTL DEF FsSpec, ImplementsFileStore, FS!StoreSpec
=============================================================================
