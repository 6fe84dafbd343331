------------------------------ MODULE FreshRead ------------------------------
(***************************************************************************)
(* What a TenantCache promises its callers, without saying how.            *)
(*                                                                         *)
(* NinjaOne's data moves through versions 0, 1, 2, ...  An invalidation    *)
(* that has returned promises that no later call is answered with anything *)
(* older than the data it was called for: `floor` is that version.  A call *)
(* is answered for the tenant it asked about, with a version no older than *)
(* the floor at the moment it asked, or it fails.                          *)
(***************************************************************************)
EXTENDS Naturals

CONSTANTS Caller, Tenant

VARIABLES
    truth,   \* the version NinjaOne would report now
    floor,   \* the oldest version a call made now may be answered with
    asked,   \* per caller: NoCall, or the tenant and floor it asked with
    answer   \* per caller: NoAnswer, or what its last call was answered

vars == <<truth, floor, asked, answer>>

NoCall == [tenant |-> "none", due |-> 0]
NoAnswer == [tenant |-> "none", ver |-> 0]

Init ==
    /\ truth = 0
    /\ floor = 0
    /\ asked = [c \in Caller |-> NoCall]
    /\ answer = [c \in Caller |-> NoAnswer]

(* The fleet changes at NinjaOne. *)
Change ==
    /\ truth' = truth + 1
    /\ UNCHANGED <<floor, asked, answer>>

(* An invalidation returns. *)
Settle ==
    /\ \E v \in floor .. truth : floor' = v
    /\ UNCHANGED <<truth, asked, answer>>

Ask(c, t) ==
    /\ asked[c] = NoCall
    /\ asked' = [asked EXCEPT ![c] = [tenant |-> t, due |-> floor]]
    /\ answer' = [answer EXCEPT ![c] = NoAnswer]
    /\ UNCHANGED <<truth, floor>>

Answer(c) ==
    /\ asked[c] # NoCall
    /\ \E v \in asked[c].due .. truth :
          answer' = [answer EXCEPT ![c] = [tenant |-> asked[c].tenant, ver |-> v]]
    /\ asked' = [asked EXCEPT ![c] = NoCall]
    /\ UNCHANGED <<truth, floor>>

(* The fetch failed; the caller gets the error, and no answer. *)
Fail(c) ==
    /\ asked[c] # NoCall
    /\ asked' = [asked EXCEPT ![c] = NoCall]
    /\ answer' = [answer EXCEPT ![c] = NoAnswer]
    /\ UNCHANGED <<truth, floor>>

Next ==
    \/ Change
    \/ Settle
    \/ \E c \in Caller :
          \/ \E t \in Tenant : Ask(c, t)
          \/ Answer(c)
          \/ Fail(c)

(* Every call comes back. *)
EveryCallReturns == \A c \in Caller : asked[c] # NoCall ~> asked[c] = NoCall

Spec == Init /\ [][Next]_vars /\ EveryCallReturns
=============================================================================
