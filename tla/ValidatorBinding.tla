-------------------------- MODULE ValidatorBinding --------------------------
(***************************************************************************)
(* One validator per human: the two-way binding between validators and     *)
(* DIDs, the per-controller sweep record SetIdentity maintains, the        *)
(* staking hooks, and the end-block sweep that jails or tombstones an      *)
(* active validator without an ACTIVE DID.  A validator is named by its    *)
(* operator account.  Staking and slashing are external: their state is    *)
(* reduced to what the sweep reads and writes.                             *)
(***************************************************************************)
EXTENDS Eligibility

CONSTANTS
    NoDid,    \* no DID, smaller than every DID in key order
    Founders, \* operators bonded at genesis
    MaxScan   \* MaxControllerDIDScan

\* DIDs are numbers, in the order of their store keys.
ASSUME DidOrder == Dids \subseteq Nat \ {0} /\ NoDid = 0
\* ValidateGenesisFounders: every founder holds an ACTIVE DID.
ASSUME FoundersHold == Founders \subseteq {Genesis[d] : d \in Dids} \cap Accounts

VARIABLES
    valOf,      \* did -> validator, NoAccount when unbound
    didOf,      \* validator -> did, NoDid when unbound
    sweepRec,   \* controller sweep record: first ACTIVE DID, has SUSPENDED,
                \* has REVOKED
    vals,       \* validators that exist (external, x/staking)
    jailed,     \* (external, x/staking)
    tombstoned, \* (external, x/slashing)
    last        \* the active set: validators of the last staking end-block
bindVars == <<valOf, didOf, sweepRec>>
stakingVars == <<vals, jailed, tombstoned, last>>
valVars == <<eligVars, bindVars, stakingVars>>

-----------------------------------------------------------------------------
(* Records *)

Held(a, idx, st, s) == {d \in Dids : <<a, d>> \in idx /\ st[d] = s}
FirstOf(S) == IF S = {} THEN NoDid ELSE Min(S)

\* refreshControllerSweepStatus, the record of a.
SweepOf(a, idx, st) ==
    [active |-> FirstOf(Held(a, idx, st, "ACTIVE")),
     suspended |-> Held(a, idx, st, "SUSPENDED") # {},
     revoked |-> Held(a, idx, st, "REVOKED") # {}]

\* SetIdentity of d refreshes its controller's record and the previous one's.
RefreshSweep(d) ==
    sweepRec' = [a \in Accounts |->
        IF a \in {controller'[d], controller[d]} THEN SweepOf(a, ctrlIndex', status')
        ELSE sweepRec[a]]

\* BindValidatorToDID.
Bind(d, v) == [valOf |-> [valOf EXCEPT ![d] = v], didOf |-> [didOf EXCEPT ![v] = d]]

\* Faulty Unbind: the DID is not released.
UnbindHalf(v) == [valOf |-> valOf, didOf |-> [didOf EXCEPT ![v] = NoDid]]

\* UnbindValidator.
Unbind(v) ==
    [valOf |-> IF didOf[v] = NoDid THEN valOf ELSE [valOf EXCEPT ![didOf[v]] = NoAccount],
     didOf |-> [didOf EXCEPT ![v] = NoDid]]

\* PrimaryDID: the first ACTIVE DID among the first MaxScan of the controller.
PrimaryDID(a) ==
    LET mine == {d \in Dids : <<a, d>> \in ctrlIndex}
        scanned == {d \in mine : Cardinality({e \in mine : e < d}) < MaxScan}
    IN  FirstOf({d \in scanned : status[d] = "ACTIVE"})

-----------------------------------------------------------------------------
(* The registry's handlers, with what they do to the records *)

Register(d, c) ==
    /\ RegisterDoc(d, c) /\ RefreshSweep(d)
    /\ UNCHANGED <<valOf, didOf, stakingVars>>

ChangeStatus(d, st) ==
    /\ ChangeStatusDoc(d, st) /\ RefreshSweep(d)
    /\ UNCHANGED <<valOf, didOf, stakingVars>>

\* ExecuteRecovery: the binding of a moved DID stays as it is.
Move(d, c) ==
    /\ MoveDoc(d, c) /\ RefreshSweep(d)
    /\ UNCHANGED <<valOf, didOf, stakingVars>>

\* RevokeIdentity releases the validator.
Revoke(d) ==
    LET b == Unbind(valOf[d])
        bound == valOf[d] # NoAccount
    IN  /\ RevokeDoc(d) /\ RefreshSweep(d)
        /\ valOf' = IF bound THEN b.valOf ELSE valOf
        /\ didOf' = IF bound THEN b.didOf ELSE didOf
        /\ UNCHANGED stakingVars

-----------------------------------------------------------------------------
(* Staking and slashing, external *)

\* AfterValidatorCreated: an ACTIVE DID that backs no other validator.
MayValidate(v) == PrimaryDID(v) # NoDid /\ valOf[PrimaryDID(v)] \in {v, NoAccount}

\* MsgCreateValidator and its hook; the consensus key may be a fresh one.
CreateValidator(v) ==
    LET b == Bind(PrimaryDID(v), v)
    IN  /\ v \notin vals /\ CanTransact(v)
        /\ MayValidate(v)
        /\ vals' = vals \cup {v}
        /\ jailed' = jailed \ {v}
        /\ tombstoned' \in {tombstoned, tombstoned \ {v}}
        /\ valOf' = b.valOf /\ didOf' = b.didOf
        /\ UNCHANGED <<eligVars, sweepRec, last>>

\* A validator without delegations is removed; AfterValidatorRemoved.
RemoveValidator(v) ==
    LET b == Unbind(v)
    IN  /\ v \in vals /\ v \notin last
        /\ vals' = vals \ {v}
        /\ valOf' = b.valOf /\ didOf' = b.didOf
        /\ UNCHANGED <<eligVars, sweepRec, jailed, tombstoned, last>>

\* MsgUnjail, signed by the operator.
Unjail(v) ==
    /\ v \in vals \cap jailed /\ v \notin tombstoned /\ CanTransact(v)
    /\ jailed' = jailed \ {v}
    /\ UNCHANGED <<eligVars, bindVars, vals, tombstoned, last>>

\* Downtime.
JailDowntime(v) ==
    /\ v \in last /\ v \notin jailed
    /\ jailed' = jailed \cup {v}
    /\ UNCHANGED <<eligVars, bindVars, vals, tombstoned, last>>

-----------------------------------------------------------------------------
(* The end-block sweep *)

\* Faulty Permanent: any revoked DID is enough.
PermanentAnyRevoked(v) == sweepRec[v].revoked

\* removeByIdentityStatus: whether the removal is permanent.
Permanent(v) == sweepRec[v].revoked /\ ~sweepRec[v].suspended

\* Faulty SweepOne: a suspended operator is kept, like an ACTIVE one.
SweepOneKeepsSuspended(v) ==
    LET d == didOf[v]
        p == sweepRec[v].active
    IN  IF d # NoDid THEN IF status[d] = "REVOKED" THEN "tombstoned" ELSE "kept"
        ELSE IF p = NoDid THEN IF Permanent(v) THEN "tombstoned" ELSE "jailed"
        ELSE IF valOf[p] \in {v, NoAccount} THEN "bound" ELSE "jailed"

\* sweepOne, the verdict on an active validator.
SweepOne(v) ==
    LET d == didOf[v]
        p == sweepRec[v].active
    IN  IF d # NoDid THEN
            IF status[d] = "ACTIVE" THEN "kept"
            ELSE IF status[d] = "SUSPENDED" THEN "jailed" ELSE "tombstoned"
        ELSE IF p = NoDid THEN IF Permanent(v) THEN "tombstoned" ELSE "jailed"
        ELSE IF valOf[p] \in {v, NoAccount} THEN "bound" ELSE "jailed"

\* The end of a block: SweepValidatorBindings judges the active set (no
\* verdict touches what another one reads), then staking's end-block forms
\* the next active set from the validators that are not jailed.
SweepValidatorBindings ==
    LET verdict == [v \in last |-> SweepOne(v)]
        bound == {v \in last : verdict[v] = "bound"}
        dead == {v \in last : verdict[v] = "tombstoned"}
    IN  /\ didOf' = [v \in Accounts |-> IF v \in bound THEN sweepRec[v].active
                                        ELSE IF v \in dead THEN NoDid ELSE didOf[v]]
        /\ valOf' = [d \in Dids |->
              IF \E v \in bound : sweepRec[v].active = d
              THEN CHOOSE v \in bound : sweepRec[v].active = d
              ELSE IF \E v \in dead : didOf[v] = d THEN NoAccount ELSE valOf[d]]
        /\ jailed' = jailed \cup {v \in last : verdict[v] \in {"jailed", "tombstoned"}}
        /\ tombstoned' = tombstoned \cup dead
        /\ last' \in SUBSET (vals \ jailed')
        /\ UNCHANGED <<eligVars, sweepRec, vals>>

\* InitGenesis: identities through SetIdentity, the founders bonded but not
\* yet bound.
ValInit ==
    /\ EligInit
    /\ valOf = [d \in Dids |-> NoAccount]
    /\ didOf = [v \in Accounts |-> NoDid]
    /\ sweepRec = [a \in Accounts |-> SweepOf(a, ctrlIndex, status)]
    /\ vals = Founders /\ last = Founders
    /\ jailed = {} /\ tombstoned = {}

ValNext ==
    \/ \E d \in Dids, c \in Accounts : Register(d, c) \/ Move(d, c)
    \/ \E d \in Dids, st \in {"ACTIVE", "SUSPENDED"} : ChangeStatus(d, st)
    \/ \E d \in Dids : Revoke(d)
    \/ \E v \in Accounts : CreateValidator(v) \/ RemoveValidator(v) \/ Unjail(v) \/ JailDowntime(v)
    \/ SweepValidatorBindings

ValSpec == ValInit /\ [][ValNext]_valVars

-----------------------------------------------------------------------------
(* Properties *)

\* The two directions of the binding agree, so a DID backs at most one
\* validator and a released validator's DID is free again, whatever mix of
\* hooks, sweep, revocation and recovery moved them (BindValidatorToDID,
\* UnbindValidator).
BindingOneToOne ==
    /\ \A d \in Dids : valOf[d] # NoAccount => didOf[valOf[d]] = d
    /\ \A v \in Accounts : didOf[v] # NoDid => valOf[didOf[v]] = v

\* "A CONTINUOUS rule": a validator that is in the active set before and
\* after an end-block is bound to a DID that is ACTIVE.
SweptSetIdentified ==
    [][SweepValidatorBindings =>
           \A v \in last \cap last' :
               didOf'[v] # NoDid /\ status[didOf'[v]] = "ACTIVE"]_valVars

\* A permanent removal strikes only an operator with a REVOKED DID and no
\* DID that could still be reinstated (SweepTombstoned: "only a REVOKED
\* identity"): suspension, recovery of the DID by another account, or losing
\* it to another validator never tombstones.
TombstoneOnlyRevoked ==
    [][\A v \in tombstoned' \ tombstoned :
          StandingDids(v) = {} /\ \E d \in Dids : controller[d] = v /\ status[d] = "REVOKED"]_valVars
=============================================================================
