-------------------------------- MODULE MCParts --------------------------------
(***************************************************************************)
(* Small instances of Interrupts, Terminal and FileSystem for TLC.  The    *)
(* three share no variable and, as modelled, no step of one depends on     *)
(* another, so that interleaving them would show nothing: each behaviour   *)
(* is one of the part that was chosen in the initial state, while the      *)
(* other two stay as they start.                                           *)
(***************************************************************************)
EXTENDS Interrupts, Terminal, FileSystem

MCNames == {<<>>, <<1>>, <<2>>, <<1, 2>>, <<2, 1>>, <<1, 1, 1>>}
MCContents == {<<>>, <<1>>, <<2, 1>>, <<2, 2, 2>>}
MCDemoFiles == <<[name |-> <<1>>, content |-> <<2, 1>>], [name |-> <<2, 1>>, content |-> <<1>>]>>

VARIABLE part       \* the part this behaviour is about

PartsInit ==
    /\ part \in {"interrupts", "terminal", "files"}
    /\ Init /\ TerminalInit /\ FsInit

PartsNext ==
    /\ \/ part = "interrupts" /\ Next /\ UNCHANGED <<terminal, fsVars>>
       \/ part = "terminal" /\ TerminalNext /\ UNCHANGED <<vars, fsVars>>
       \/ part = "files" /\ FsNext /\ UNCHANGED <<vars, terminal>>
    /\ UNCHANGED part

\* The fairness of Interrupts, where it is the part that moves.
PartsSpec ==
    /\ PartsInit /\ [][PartsNext]_<<vars, terminal, fsVars, part>>
    /\ \A depth \in 1 .. MaxDepth :
          SF_vars(part = "interrupts" /\ Len(stack) = depth /\ Execute)
=============================================================================
