----------------------------- MODULE MCAccounts -----------------------------
(***************************************************************************)
(* The instance TLC checks: a handful of requests at a time, chosen so     *)
(* that each table meets all the handlers that write it.                   *)
(***************************************************************************)
EXTENDS Accounts

CONSTANTS boot, boot2, inv, inv2, inv3, rsd, rvk, acc, acc2, reg, reg2, act, act2,
          rem, del, rea, log, ref, ref2, ref3, out, chg, a, b, admin

MCKindOf ==
  [q \in Requests |->
     CASE q \in {boot, boot2} -> "bootstrap"
       [] q \in {inv, inv2, inv3} -> "invite"
       [] q = rsd -> "resend"
       [] q = rvk -> "revoke"
       [] q \in {acc, acc2} -> "accept"
       [] q \in {reg, reg2} -> "register"
       [] q \in {act, act2} -> "activate"
       [] q = rem -> "remind"
       [] q = del -> "delete"
       [] q = rea -> "reactivate"
       [] q = log -> "login"
       [] q \in {ref, ref2, ref3} -> "refresh"
       [] q = out -> "logout"
       [] q = chg -> "email"]

\* The address a change asks for is b, which a second invitation is for; the
\* other requests that have an address are for a.
MCEmailOf ==
  [q \in Requests |-> IF q \in {chg, inv2} THEN b ELSE IF q = boot THEN admin ELSE a]

MCLoads ==
  { {boot, boot2, inv, ref, reg},
    {inv, inv3, reg, rvk, acc},
    {inv, rsd, rvk, acc, acc2},
    {reg, reg2, rem, act, act2, del, log},
    {reg, act, log, ref, ref2, ref3, del},
    {inv, acc, log, ref, ref2, out, del, rea},
    {inv, inv2, acc, acc2, chg, reg} }
=============================================================================
