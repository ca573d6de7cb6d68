------------------------------- MODULE Capture -------------------------------
(***************************************************************************)
(* What the telemetry sink promises about the records of one test run, with *)
(* no HTTP, no disk and no counters.  A record that was acknowledged is      *)
(* kept until a reset names its signal; a dump takes a snapshot of all that  *)
(* is kept; between two dumps the snapshot can only lose records, to a       *)
(* reset; and one request concerns one protocol.                             *)
(*                                                                         *)
(* Sink.tla is shown to implement this module, and the driver modules are   *)
(* composed with it instead of with the whole server.                       *)
(***************************************************************************)
EXTENDS Integers, FiniteSets

CONSTANTS
  Protocols,  \* the protocols with a capture of their own
  Entries,    \* every record the sink could ever acknowledge
  Discards    \* the sets of records a reset path may name

VARIABLES
  kept,       \* kept[p]: the acknowledged records of p no reset has erased
  taken,      \* taken[p]: a dump happened since the last full reset of p
  snapshot    \* snapshot[p]: the records the last dump of p showed

vars == <<kept, taken, snapshot>>

TypeOK ==
  /\ kept \in [Protocols -> SUBSET Entries]
  /\ taken \in [Protocols -> BOOLEAN]
  /\ snapshot \in [Protocols -> SUBSET Entries]

Init ==
  /\ kept = [p \in Protocols |-> {}]
  /\ taken = [p \in Protocols |-> FALSE]
  /\ snapshot = [p \in Protocols |-> {}]

(* An export answered 200. *)
Acknowledge(p, e) ==
  /\ \A q \in Protocols : e \notin kept[q]
  /\ kept' = [kept EXCEPT ![p] = @ \cup {e}]
  /\ UNCHANGED <<taken, snapshot>>

(* A dump, rendered as JSON or as Scheme. *)
Freeze(p) ==
  /\ taken' = [taken EXCEPT ![p] = TRUE]
  /\ snapshot' = [snapshot EXCEPT ![p] = kept[p]]
  /\ UNCHANGED kept

(* A reset of some signals keeps the snapshot, without the erased records. *)
Discard(p, gone) ==
  /\ kept' = [kept EXCEPT ![p] = @ \ gone]
  /\ snapshot' = [snapshot EXCEPT ![p] = @ \ gone]
  /\ UNCHANGED taken

(* A full reset forgets that a dump ever happened. *)
Clear(p) ==
  /\ kept' = [kept EXCEPT ![p] = {}]
  /\ snapshot' = [snapshot EXCEPT ![p] = {}]
  /\ taken' = [taken EXCEPT ![p] = FALSE]

Next ==
  \E p \in Protocols :
    \/ \E e \in Entries : Acknowledge(p, e)
    \/ Freeze(p)
    \/ \E gone \in Discards : Discard(p, gone)
    \/ Clear(p)

Spec == Init /\ [][Next]_vars

(* What /validate and /candidate read: the snapshot once there is one. *)
Judged(p) == IF taken[p] THEN snapshot[p] ELSE kept[p]
=============================================================================
