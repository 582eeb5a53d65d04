----------------------------- MODULE FencedLease -----------------------------
(***************************************************************************)
(* What the stage queue promises about work: an attempt is opened once,    *)
(* is in the hands of one worker at a time under a grant that carries the  *)
(* attempt's recovery epoch, and is settled only by the worker whose grant *)
(* is current.  A revoked grant is worthless, whatever its holder does.    *)
(* "同一 attempt 只有租约持有者可提交结果", docs/technical-decisions.md.   *)
(***************************************************************************)
EXTENDS Naturals

CONSTANTS Runs, Workers, NoWorker, NoClaim

VARIABLES
    phase,    \* "unborn", "open", "held" or "closed"
    holder,   \* the worker whose grant on the run is current
    epoch,    \* how often a grant on the run was revoked
    hand      \* the grant each worker acts under

vars == <<phase, holder, epoch, hand>>

Init ==
    /\ phase = [r \in Runs |-> "unborn"]
    /\ holder = [r \in Runs |-> NoWorker]
    /\ epoch = [r \in Runs |-> 0]
    /\ hand = [w \in Workers |-> NoClaim]

Current(w) ==
    /\ hand[w] # NoClaim
    /\ phase[hand[w].run] = "held"
    /\ holder[hand[w].run] = w
    /\ epoch[hand[w].run] = hand[w].gen

\* The runs whose phase a step changes go from one of the phases in from to one in to.
PhaseMoves(rs, from, to) ==
    \A r \in rs : phase'[r] # phase[r] => phase[r] \in from /\ phase'[r] \in to

Open ==
    /\ PhaseMoves(Runs, {"unborn"}, {"open"})
    /\ UNCHANGED <<holder, epoch, hand>>

Withdraw ==
    /\ PhaseMoves(Runs, {"open"}, {"closed"})
    /\ UNCHANGED <<holder, epoch, hand>>

Grant(w, r) ==
    /\ phase[r] = "open"
    /\ hand[w] = NoClaim
    /\ phase' = [phase EXCEPT ![r] = "held"]
    /\ holder' = [holder EXCEPT ![r] = w]
    /\ hand' = [hand EXCEPT ![w] = [run |-> r, gen |-> epoch[r]]]
    /\ UNCHANGED epoch

\* The holder ends the attempt or hands it back; ending it may withdraw later stages.
Settle(w) ==
    /\ Current(w)
    /\ phase'[hand[w].run] \in {"open", "closed"}
    /\ PhaseMoves(Runs \ {hand[w].run}, {"open"}, {"closed"})
    /\ holder' = [holder EXCEPT ![hand[w].run] = NoWorker]
    /\ hand' = [hand EXCEPT ![w] = NoClaim]
    /\ UNCHANGED epoch

\* A worker gives up or dies; nothing is settled.
Forget(w) ==
    /\ hand' = [hand EXCEPT ![w] = NoClaim]
    /\ UNCHANGED <<phase, holder, epoch>>

\* Recovery takes runs from their holders and makes their grants stale.
Revoke ==
    /\ PhaseMoves(Runs, {"held"}, {"open", "closed"})
    /\ \A r \in Runs :
         IF phase'[r] # phase[r]
         THEN holder'[r] = NoWorker /\ epoch'[r] = epoch[r] + 1
         ELSE holder'[r] = holder[r] /\ epoch'[r] = epoch[r]
    /\ UNCHANGED hand

Next ==
    \/ Open \/ Withdraw \/ Revoke
    \/ \E w \in Workers :
         Settle(w) \/ Forget(w) \/ \E r \in Runs : Grant(w, r)

Spec == Init /\ [][Next]_vars
=============================================================================
