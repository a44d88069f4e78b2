------------------------------ MODULE BzzToken ------------------------------
(***************************************************************************)
(* The BZZ token, as far as VolumeRegistry depends on it.  The token is    *)
(* deployed elsewhere: this is a model of the contract the registry calls  *)
(* through IERC20Like and IPermittableTokenLike, with the failure          *)
(* conditions that ADR-0007 enumerates for Gnosis BZZ (PermittableToken)   *)
(* and Sepolia BZZ (pausable).                                             *)
(*                                                                         *)
(* An allowance has one spender here: a payer's is the registry's, the     *)
(* registry's is PostageStamp's.  Tokens paid to PostageStamp leave the    *)
(* modelled holders.                                                       *)
(***************************************************************************)
EXTENDS Integers

CONSTANTS
    Payers,          \* addresses that may pay for volumes
    Registry,        \* the address of the VolumeRegistry contract
    Word,            \* 2^256: one more than the largest uint256
    MaxNow,          \* bound: the last block the model reaches
    HasPermit,       \* TRUE on Gnosis BZZ: the token enforces `expirations`
    Grants,          \* the finite allowances a payer may set
    PermitExpiries,  \* the expiries a payer may put on an unlimited permit
    Deposits,        \* the amounts a payer may receive
    MaxBalance,      \* bound: no payer holds more than this
    BzzPauses        \* the values the token's pause flag may take

Holders   == Payers \cup {Registry}
Unlimited == Word - 1             \* type(uint256).max

ASSUME TokenAssumption ==
    /\ Registry \notin Payers
    /\ Word \in Nat \ {0, 1}
    /\ MaxNow \in Nat
    /\ HasPermit \in BOOLEAN
    /\ Grants \subseteq 0 .. Word - 1
    /\ PermitExpiries \subseteq Nat
    /\ Deposits \subseteq Nat
    /\ MaxBalance \in Nat
    /\ BzzPauses \subseteq BOOLEAN

VARIABLES
    now,          \* block number, and block.timestamp at one tick per block
    balance,      \* balanceOf
    allowance,    \* allowance to the holder's one spender (see above)
    expirations,  \* expiry of an unlimited allowance, 0 = none
    bzzPaused     \* Sepolia BZZ: transfers revert while paused

bzzVars == <<balance, allowance, expirations, bzzPaused>>

BzzTypeOK ==
    /\ now \in Nat
    /\ balance \in [Holders -> Nat]
    /\ allowance \in [Holders -> Nat]
    /\ expirations \in [Payers -> Nat]
    /\ bzzPaused \in BOOLEAN

(* Payers start with what they hold when the registry is deployed. *)
BzzInit ==
    /\ balance \in [Holders -> Deposits \cup {0}]
    /\ balance[Registry] = 0
    /\ allowance = [h \in Holders |-> 0]
    /\ expirations = [p \in Payers |-> 0]
    /\ bzzPaused = FALSE

-----------------------------------------------------------------------------
(* Calls the registry makes.                                               *)

(* transferFrom(p, registry, amount), called by the registry, succeeds.    *)
TransferFromOK(p, amount) ==
    /\ ~bzzPaused
    /\ balance[p] >= amount
    /\ allowance[p] >= amount
    /\ HasPermit /\ allowance[p] = Unlimited
         => expirations[p] = 0 \/ expirations[p] >= now

(* One payment through the registry, in one transaction: it takes amount   *)
(* from p, approves PostageStamp for exactly that, and PostageStamp draws  *)
(* drawn from it.  An unlimited allowance is never decremented.            *)
PayThrough(p, amount, drawn) ==
    /\ TransferFromOK(p, amount)
    /\ drawn <= amount
    /\ balance' = [balance EXCEPT ![p] = @ - amount,
                                  ![Registry] = @ + amount - drawn]
    /\ allowance' = [allowance EXCEPT
                        ![p] = IF @ = Unlimited THEN @ ELSE @ - amount,
                        ![Registry] = amount - drawn]
    /\ UNCHANGED <<expirations, bzzPaused>>

-----------------------------------------------------------------------------
(* What the token's other users do.                                        *)

(* approve: also clears the expiry if the allowance becomes unlimited.     *)
Approve(p, amount) ==
    /\ allowance' = [allowance EXCEPT ![p] = amount]
    /\ expirations' = [expirations EXCEPT
                          ![p] = IF amount = Unlimited THEN 0 ELSE @]
    /\ UNCHANGED <<balance, bzzPaused>>

(* The legacy permit: an unlimited allowance that may expire.              *)
Permit(p, expiry) ==
    /\ HasPermit
    /\ expiry = 0 \/ expiry >= now
    /\ allowance' = [allowance EXCEPT ![p] = Unlimited]
    /\ expirations' = [expirations EXCEPT ![p] = expiry]
    /\ UNCHANGED <<balance, bzzPaused>>

Deposit(p, amount) ==
    /\ amount > 0
    /\ balance[p] + amount <= MaxBalance
    /\ balance' = [balance EXCEPT ![p] = @ + amount]
    /\ UNCHANGED <<allowance, expirations, bzzPaused>>

SetBzzPaused(b) ==
    /\ bzzPaused' = b
    /\ UNCHANGED <<balance, allowance, expirations>>

BzzNext ==
    \/ \E p \in Payers : \E amount \in Grants : Approve(p, amount)
    \/ \E p \in Payers : \E expiry \in PermitExpiries : Permit(p, expiry)
    \/ \E p \in Payers : \E amount \in Deposits : Deposit(p, amount)
    \/ \E b \in BzzPauses : SetBzzPaused(b)
=============================================================================
