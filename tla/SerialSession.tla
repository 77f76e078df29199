--------------------------- MODULE SerialSession ---------------------------
(***************************************************************************)
(* What a Session promises to the Tasks that share it: one of them at a    *)
(* time may extend the conversation.  Each grant has a generation of its   *)
(* own, only the current grant writes to the log, and it writes once.      *)
(* SessionTurn implements this with a Lease, its mirror and two databases. *)
(***************************************************************************)
EXTENDS Integers, Sequences

CONSTANTS Tasks, None

VARIABLES
    holder,     \* the grant <<task, generation>>, or Free
    gen,        \* the last generation granted
    log         \* the conversation: the grants that wrote, in order

serialVars == <<holder, gen, log>>

Free == <<None, 0>>

SerialInit == holder = Free /\ gen = 0 /\ log = <<>>

Grant(t) ==
    /\ holder = Free
    /\ holder' = <<t, gen + 1>> /\ gen' = gen + 1
    /\ UNCHANGED log

\* The holder writes its turn, and may give the grant back in the same step.
Extend ==
    /\ holder # Free
    /\ \A i \in 1 .. Len(log) : log[i] # holder
    /\ log' = Append(log, holder)
    /\ holder' \in {holder, Free}
    /\ UNCHANGED gen

GiveBack == holder # Free /\ holder' = Free /\ UNCHANGED <<gen, log>>

SerialNext == (\E t \in Tasks : Grant(t)) \/ Extend \/ GiveBack

SerialSpec == SerialInit /\ [][SerialNext]_serialVars
=============================================================================
