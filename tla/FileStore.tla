------------------------------- MODULE FileStore -------------------------------
(***************************************************************************)
(* What the file system of MiniCore-OS promises its callers: a directory   *)
(* of at most MaxFiles named files in the order in which they were added,  *)
(* which never change once they are there.  answer is what the last call   *)
(* returned.                                                               *)
(***************************************************************************)
EXTENDS Integers, Sequences

CONSTANTS MaxFiles, MaxName, MaxSize, Names, Contents, Types

VARIABLES up, store, answer

storeVars == <<up, store, answer>>

Code(code) == [code |-> code, bytes |-> <<>>, directory |-> <<>>]
Has(name) == \E i \in 1 .. Len(store) : store[i].name = name

StoreInit ==
    /\ up = FALSE
    /\ store = <<>>
    /\ answer = Code(0)

Open ==
    /\ ~up /\ up' = TRUE
    /\ UNCHANGED <<store, answer>>

Refusal(name, content) ==
    IF ~up \/ Len(store) = MaxFiles THEN -1
    ELSE IF Len(name) >= MaxName \/ Len(content) >= MaxSize THEN -2
    ELSE IF Has(name) THEN -3
    ELSE 0

Add(name, content, type) ==
    /\ answer' = Code(Refusal(name, content))
    /\ store' = IF Refusal(name, content) = 0
                THEN Append(store, [name |-> name, content |-> content, type |-> type])
                ELSE store
    /\ UNCHANGED up

Read(name) ==
    /\ \/ ~Has(name) /\ answer' = Code(-1)
       \/ \E i \in 1 .. Len(store) :
             /\ store[i].name = name
             /\ answer' = [Code(0) EXCEPT !.bytes = store[i].content]
    /\ UNCHANGED <<up, store>>

List ==
    /\ answer' = IF ~up THEN Code(-1)
                 ELSE [Code(0) EXCEPT !.directory = [i \in 1 .. Len(store) |->
                          [name |-> store[i].name, size |-> Len(store[i].content),
                           type |-> store[i].type]]]
    /\ UNCHANGED <<up, store>>

StoreNext ==
    \/ Open
    \/ \E name \in Names, content \in Contents, type \in Types : Add(name, content, type)
    \/ \E name \in Names : Read(name)
    \/ List

StoreSpec == StoreInit /\ [][StoreNext]_storeVars
=============================================================================
