---------------------------- MODULE VolumeLedger ----------------------------
(***************************************************************************)
(* What the registry promises its users, without arrays, batches, prices   *)
(* or records: who pays for whom, which volumes an owner has, and when a   *)
(* payer may be charged.  VolumeRegistry implements this module; it states *)
(* I3, I4, I7, I9, I10, I11 and I14 of DESIGN section 5 in one place.      *)
(***************************************************************************)
EXTENDS Integers

CONSTANTS
    Owners, Payers,
    Nobody,       \* no payer
    MaxNonce      \* bound: volumes per owner

VARIABLES
    offer,        \* owner -> the payer it has chosen, or Nobody
    mandate,      \* owner -> the payer that pays for it now, or Nobody
    used,         \* owner -> how many volumes it has opened
    open,         \* the volumes being maintained
    funds         \* what each payer holds

vars == <<offer, mandate, used, open, funds>>

Ids == Owners \X (0 .. MaxNonce - 1)

Init ==
    /\ offer = [o \in Owners |-> Nobody]
    /\ mandate = [o \in Owners |-> Nobody]
    /\ used = [o \in Owners |-> 0]
    /\ open = {}
    /\ funds \in [Payers -> Nat]

(* Every payer keeps what it has, except that those in S may pay.          *)
OnlyChargeable(S) ==
    /\ DOMAIN funds' = Payers
    /\ \A p \in Payers : funds'[p] # funds[p] => p \in S /\ funds'[p] < funds[p]

Offer(o, p) ==
    /\ offer' = [offer EXCEPT ![o] = p]
    /\ UNCHANGED <<mandate, used, open, funds>>

(* A mandate needs both: the owner's offer and the payer's consent.        *)
Agree(o, p) ==
    /\ offer[o] = p
    /\ mandate' = [mandate EXCEPT ![o] = p]
    /\ UNCHANGED <<offer, used, open, funds>>

Withdraw(o) ==
    /\ mandate' = [mandate EXCEPT ![o] = Nobody]
    /\ UNCHANGED <<offer, used, open, funds>>

(* Under a mandate an owner opens its next volume; only the payer it names *)
(* may be charged.                                                         *)
Open(o) ==
    /\ mandate[o] # Nobody
    /\ used[o] < MaxNonce
    /\ open' = open \cup {<<o, used[o]>>}
    /\ used' = [used EXCEPT ![o] = @ + 1]
    /\ OnlyChargeable({mandate[o]})
    /\ UNCHANGED <<offer, mandate>>

(* Maintenance closes volumes for good, and charges only payers with a     *)
(* mandate from the owner of a volume that was open.                       *)
Maintain(kept) ==
    /\ kept \subseteq open
    /\ open' = kept
    /\ OnlyChargeable({mandate[id[1]] : id \in open})
    /\ UNCHANGED <<offer, mandate, used>>

Receive(p) ==
    /\ DOMAIN funds' = Payers
    /\ funds'[p] > funds[p]
    /\ \A q \in Payers \ {p} : funds'[q] = funds[q]
    /\ UNCHANGED <<offer, mandate, used, open>>

Next ==
    \/ \E o \in Owners, p \in Payers \cup {Nobody} : Offer(o, p)
    \/ \E o \in Owners, p \in Payers : Agree(o, p)
    \/ \E o \in Owners : Withdraw(o) \/ Open(o)
    \/ \E kept \in SUBSET open : Maintain(kept)
    \/ \E p \in Payers : Receive(p)

Spec == Init /\ [][Next]_vars
=============================================================================
