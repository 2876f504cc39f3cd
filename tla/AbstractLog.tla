---------------------------- MODULE AbstractLog -----------------------------
(***************************************************************************)
(* What TRI-SYNC promises of an event log, whatever it is stored in: one   *)
(* sequence of events of one namespace, numbered from 0 without gaps, that *)
(* only grows at its end, and appends that are confirmed only for events   *)
(* it has (src/SPEC.md 7.1 and 7.4).                                       *)
(***************************************************************************)
EXTENDS Naturals, Sequences

VARIABLES
  log,    \* the events, as records with their sequence number and namespace
  acked   \* the events whose append was confirmed

absvars == <<log, acked>>

InLog(e) == \E i \in DOMAIN log : log[i] = e

Numbered(s) == \A i \in DOMAIN s : s[i].seq = i - 1 /\ s[i].ns = s[1].ns

StartsWith(s, t) == Len(t) <= Len(s) /\ \A i \in DOMAIN t : s[i] = t[i]

Init == log = << >> /\ acked = {}

\* Some events reach the log, at its end.
Extend ==
  /\ log' # log
  /\ StartsWith(log', log)
  /\ Numbered(log')
  /\ UNCHANGED acked

\* An append of events that are in the log is confirmed.
Confirm ==
  /\ acked' # acked
  /\ acked \subseteq acked'
  /\ \A e \in acked' : InLog(e)
  /\ UNCHANGED log

Next == Extend \/ Confirm

Spec == Init /\ [][Next]_absvars
=============================================================================
