----------------------------- MODULE DegradedMode -----------------------------
(***************************************************************************)
(* The monitor that tells the clients when the cluster has no leader       *)
(* (degraded_mode.rs).  It reads the node's state from a watch channel,    *)
(* which keeps the last value only, so that it may miss the values between *)
(* two of its steps.  A single-node cluster, for which it does nothing, is *)
(* left out.                                                               *)
(***************************************************************************)
EXTENDS Naturals

CONSTANTS Leaders, Nil

VARIABLES published, \* the value in the channel: the leader, or Nil
          unread,    \* the channel changed since the monitor read it
          prev,      \* prev_leader_known
          degraded,  \* DegradedModeState
          told,      \* the last notice the clients got: "lost", "restored" or Nil
          observed   \* history: a value with a leader was read

degradedVars == <<published, unread, prev, degraded, told, observed>>

\* publish_state of the driver.
Publish ==
  /\ published' \in Leaders \cup {Nil}
  /\ published' # published
  /\ unread' = TRUE
  /\ UNCHANGED <<prev, degraded, told, observed>>

FaultBecomesDegraded(known) == ~known
BecomesDegraded(known) == prev /\ ~known

BecomesNormal(known) == ~prev /\ known /\ degraded

Observe ==
  LET known == published # Nil IN
  /\ unread
  /\ unread' = FALSE
  /\ degraded' = ((degraded \/ BecomesDegraded(known)) /\ ~BecomesNormal(known))
  /\ told' = CASE BecomesDegraded(known) -> "lost"
               [] BecomesNormal(known) -> "restored"
               [] OTHER -> told
  /\ prev' = known
  /\ observed' = (observed \/ known)
  /\ UNCHANGED published

\* The monitor starts from the value in the channel.
Init ==
  /\ published = Nil /\ unread = FALSE /\ prev = FALSE
  /\ degraded = FALSE /\ told = Nil /\ observed = FALSE

Next == Publish \/ Observe

\* Once the monitor has read the last value, the server is in degraded mode if
\* and only if a leader was known before and none is now, whichever values the
\* channel dropped; and what the clients were told last agrees with it.
DegradedExact ==
  /\ ~unread => (degraded <=> observed /\ published = Nil)
  /\ degraded <=> told = "lost"
=============================================================================
