---------------------------- MODULE HelperClients ----------------------------
(***************************************************************************)
(* router-applyd serving any client: requests of every kind, with new,     *)
(* repeated or reused IDs, from clients that may give up.  What it shows   *)
(* does not depend on the engine behaving well.                            *)
(***************************************************************************)
EXTENDS PrivilegedHelper

vars == <<channelVars, faults, helperVars>>

\* A client connects and sends one request line.  One that waits for the lock
\* is, to the helper, one that arrives when the lock is free.  Flags are
\* meaningful on APPLY_ALL only.
Submit(req) ==
  /\ helper.pc = "idle" /\ Len(inbox) < MaxQueue
  /\ req.op = "APPLY_ALL" \/ ~(req.require_confirmation \/ req.defer_last_good)
  /\ inbox' = Append(inbox, [req |-> req, live |-> FALSE])
  /\ UNCHANGED <<serving, answer, faults, helperVars>>

Init == ChannelInit /\ HelperInit

Next ==
  \/ \E req \in ApplyRequest : ~req.config.stamped /\ Submit(req)
  \/ HelperStep
  \/ HelperCrash
  \/ reconcile_startup
  \/ (startup_fails \/ rollback_fails_closed) /\ UNCHANGED channelVars

Spec == Init /\ [][Next]_vars
-----------------------------------------------------------------------------
(* Properties.                                                             *)

TypeOK == ChannelTypeOK /\ HelperTypeOK

\* A disruptive change reaches last-good only through the pending marker of a
\* provisional apply, or by a reconciliation: an APPLY_ALL cannot bypass the
\* confirmation, whatever flags it carries and however it fails.
ConfirmationGate ==
  [][lastGood' # lastGood /\ lastGood # NoConfig /\ requires_confirmation(lastGood, lastGood')
       => helper.req.op = "RECONCILE" \/ pendingConfirmation = lastGood']_vars

\* What the helper would replay is still true of the appliance: a provisional
\* success is pending and reachable, any other success is last-good with
\* nothing pending, and a provisional apply reported rolled back left the
\* management path on last-good alone.
ReplayIsTrue ==
  LET req == memory.req IN
  helper.pc = "idle" /\ memory # NoRecord =>
    CASE memory.outcome = "success" /\ Provisional(req) ->
           pendingConfirmation = req.config /\ Verifiable(req.config)
      [] memory.outcome = "success" /\ req.op = "CONFIRM" ->
           pendingConfirmation = req.config /\ runtime[Lan] = {req.config.body[Lan]}
      [] memory.outcome = "success" /\ ~Provisional(req) /\ req.op # "CONFIRM" ->
           lastGood = req.config /\ pendingConfirmation = NoConfig
      [] memory.outcome = "rolled_back" /\ Provisional(req) ->
           pendingConfirmation = NoConfig /\ runtime[Lan] = {lastGood.body[Lan]}
      [] OTHER -> TRUE
=============================================================================
