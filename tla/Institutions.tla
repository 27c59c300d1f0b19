---------------------------- MODULE Institutions ----------------------------
(***************************************************************************)
(* The institution registry of x/institutions: registration and two-phase  *)
(* removal, roles inside an institution, the aggregated approvals behind   *)
(* sensitive actions with the admin-set epoch that voids them, and the     *)
(* onboarding of exchanges (fx).  Money is in module Vaults, which extends *)
(* this one.  Every action is a transaction of one message that succeeds,  *)
(* or the begin-blocker; an erroring message is rolled back and no step.   *)
(***************************************************************************)
EXTENDS Integers, FiniteSets, FiniteSetsExt, Functions

CONSTANTS
    NumIds,         \* institution ids are 1..NumIds, in store order
    Accounts,       \* addresses
    NoAccount,      \* the admin of an id that is not registered
    RootAdmin,      \* root admin of each id in the genesis file, or NoAccount
    GenesisRoles,   \* role grants of the genesis file
    GenesisTiers,   \* KYC tier records of the genesis file, <<account, tier>>
    Bootstrap,      \* whether the chain starts in the bootstrap phase
    Params,         \* module parameters governance may set
    InstParams,     \* institution parameters a message may carry
    NoInstParams,   \* parameters of a newly registered institution
    AppConfigs,     \* display configurations a message may carry
    DepositKeys,    \* deposit-signing keys a message may carry
    NoKey,          \* no deposit-signing key
    Grants,         \* bound: the <<grantee, role>> pairs messages carry
    Registrants,    \* bound: the <<admin, type>> pairs registrations carry
    Applicants,     \* bound: the accounts that apply for fx onboarding
    Freezable,      \* bound: the ids freeze messages name
    BootstrapChoices, \* bound: the values governance sets the bootstrap phase to
    RemovalBudget,  \* RemovalPruneBudget
    DefaultThreshold, \* DefaultSensitiveThreshold
    MaxEpoch        \* bound on changes of an admin set

Ids == 1..NumIds
Roles == {"ADMIN", "OPERATOR", "COMPLIANCE", "VIEWER"}  \* FINANCE, DEVELOPER act as VIEWER
NoRole == "UNSPECIFIED"
NoRequest == [status |-> "NONE"]

ASSUME IdCount == NumIds \in Nat \ {0} /\ IsFiniteSet(Accounts)
ASSUME BudgetPositive == RemovalBudget \in Nat \ {0} /\ DefaultThreshold \in Nat \ {0}
ASSUME GenesisFile ==
    /\ NoAccount \notin Accounts
    /\ RootAdmin \in [Ids -> Accounts \cup {NoAccount}]
    /\ GenesisRoles \in [Ids -> [Accounts -> Roles \cup {NoRole}]]
    /\ \A i \in Ids : RootAdmin[i] = NoAccount =>
          GenesisTiers[i] = {} /\ \A a \in Accounts : GenesisRoles[i][a] = NoRole
ASSUME InputBounds ==
    /\ Grants \subseteq Accounts \X Roles
    /\ Registrants \subseteq Accounts \X {"FINANCIAL", "FX"}
    /\ Applicants \subseteq Accounts /\ Freezable \subseteq Ids
    /\ BootstrapChoices \subseteq BOOLEAN
    /\ \A p \in InstParams \cup {NoInstParams} : p.threshold \in Nat

VARIABLES
    params,      \* module parameters
    admin,       \* Institution.Admin; NoAccount when the id is not stored
    itype,       \* Institution.InstitutionType
    istatus,     \* Institution.Status
    iparams,     \* Institution.Params
    appConfig,   \* Institution.AppConfig
    depositKey,  \* Institution.DepositPubkey
    roles,       \* role grants
    approvals,   \* stored approvals: <<content, signer, epoch>> per id
    epoch,       \* admin-set epoch per id
    tiers,       \* KYC tier records per id
    queue,       \* removal queue
    fx,          \* pending fx onboarding requests
    bootstrap,   \* identity parameter: bootstrap phase
    voted,       \* fx ids finalized by a proposal that PASSED
    consent      \* history: who signed each content, with how many admins,
                 \* since the last grant or revocation of ADMIN

regVars == <<params, admin, itype, istatus, iparams, appConfig, depositKey>>
rbacVars == <<roles, approvals, epoch, tiers, queue, consent>>
fxVars == <<fx, bootstrap, voted>>
instVars == <<regVars, rbacVars, fxVars>>

HasInstitution(i) == admin[i] # NoAccount

-----------------------------------------------------------------------------
(* Roles and aggregated approvals *)

\* effectiveRole: the root admin is ADMIN without a grant.
EffectiveRole(i, a) == IF a = admin[i] THEN "ADMIN" ELSE roles[i][a]
Admins(i) == {a \in Accounts : EffectiveRole(i, a) = "ADMIN"}

\* effectiveThreshold: the institution's threshold, or the default, never
\* more than there are admins.
EffectiveThreshold(i) ==
    LET t == IF iparams[i].threshold = 0 THEN DefaultThreshold ELSE iparams[i].threshold
    IN  Min({t, Cardinality(Admins(i))})

\* recordApproval: one record per content and signer, under today's epoch.
Signed(i, s, ch) ==
    {e \in approvals[i] : e[1] # ch \/ e[2] # s} \cup {<<ch, s, epoch[i]>>}

\* Faulty CountApprovals: approvals of an earlier admin set count.
CountApprovalsAnyEpoch(i, ch, appr) ==
    {a \in Admins(i) : \E e \in appr : e[1] = ch /\ e[2] = a}

\* countApprovals: today's admins who approved under today's epoch.
CountApprovals(i, ch, appr) == {a \in Admins(i) : <<ch, a, epoch[i]>> \in appr}

\* trySensitive: whether s's approval of ch makes it execute.
Executes(i, s, ch) ==
    Cardinality(CountApprovals(i, ch, Signed(i, s, ch))) >= EffectiveThreshold(i)

\* clearApprovals.
Cleared(i, ch) == {e \in approvals[i] : e[1] # ch}

\* trySensitive and clearApprovals: s, an ADMIN, approves ch; the approvals
\* of ch are kept while it is pending and cleared when it executes.
Approve(i, s, ch) ==
    /\ HasInstitution(i)
    /\ EffectiveRole(i, s) = "ADMIN"
    /\ approvals' = [approvals EXCEPT ![i] =
                       IF Executes(i, s, ch) THEN Cleared(i, ch) ELSE Signed(i, s, ch)]

Consented(i, s, ch) ==
    LET others == {e \in consent[i] : e[1] # ch \/ (e[2] # s /\ ~Executes(i, s, ch))}
    IN  IF Executes(i, s, ch) THEN others ELSE others \cup {<<ch, s, Cardinality(Admins(i))>>}

\* bumpAdminEpoch, and the history that goes with it.
NewAdminSet(i, s, ch, changed) ==
    /\ changed => epoch[i] < MaxEpoch
    /\ epoch' = [epoch EXCEPT ![i] = IF changed THEN @ + 1 ELSE @]
    /\ consent' = [consent EXCEPT ![i] = IF changed THEN {} ELSE Consented(i, s, ch)]

\* GrantInstitutionRole: granting ADMIN voids all pending approvals.
GrantInstitutionRole(i, s, g, role) ==
    LET ch == <<"grant", g, role>>
        ok == Executes(i, s, ch)
    IN  /\ Approve(i, s, ch)
        /\ roles' = IF ok THEN [roles EXCEPT ![i][g] = role] ELSE roles
        /\ NewAdminSet(i, s, ch, ok /\ role = "ADMIN")
        /\ UNCHANGED <<regVars, tiers, queue, fxVars>>

\* RevokeInstitutionRole: revoking an ADMIN grant voids them as well.
RevokeInstitutionRole(i, s, g) ==
    LET ch == <<"revoke", g, NoRole>>
        ok == Executes(i, s, ch)
    IN  /\ Approve(i, s, ch)
        /\ roles' = IF ok THEN [roles EXCEPT ![i][g] = NoRole] ELSE roles
        /\ NewAdminSet(i, s, ch, ok /\ roles[i][g] = "ADMIN")
        /\ UNCHANGED <<regVars, tiers, queue, fxVars>>

\* RedeemCapsBelowFloor.
CapsClearFloor(p, floor) ==
    \A c \in {p.redTx, p.redDay, p.redUser} \cup Range(p.kyc) : c = 0 \/ c >= floor

\* validateParamsTightenOnly: no redeem cap below the protocol floor, no
\* staleness limit above the protocol's.
TightenOnly(p) ==
    /\ CapsClearFloor(p, params.floor)
    /\ params.stale > 0 => p.latency <= params.stale

\* UpdateInstitutionParams.
UpdateInstitutionParams(i, s, p) ==
    LET ch == <<"params", p, NoRole>>
    IN  /\ TightenOnly(p)
        /\ Approve(i, s, ch)
        /\ iparams' = IF Executes(i, s, ch) THEN [iparams EXCEPT ![i] = p] ELSE iparams
        /\ NewAdminSet(i, s, ch, FALSE)
        /\ UNCHANGED <<params, admin, itype, istatus, appConfig, depositKey, roles, tiers,
                       queue, fxVars>>

\* UpdateInstitutionAppConfig.
UpdateInstitutionAppConfig(i, s, v) ==
    LET ch == <<"appconfig", v, NoRole>>
    IN  /\ Approve(i, s, ch)
        /\ appConfig' = IF Executes(i, s, ch) THEN [appConfig EXCEPT ![i] = v] ELSE appConfig
        /\ NewAdminSet(i, s, ch, FALSE)
        /\ UNCHANGED <<params, admin, itype, istatus, iparams, depositKey, roles, tiers,
                       queue, fxVars>>

\* SetInstitutionDepositKey.
SetInstitutionDepositKey(i, s, k) ==
    LET ch == <<"depositkey", k, NoRole>>
    IN  /\ Approve(i, s, ch)
        /\ depositKey' = IF Executes(i, s, ch) THEN [depositKey EXCEPT ![i] = k] ELSE depositKey
        /\ NewAdminSet(i, s, ch, FALSE)
        /\ UNCHANGED <<params, admin, itype, istatus, iparams, appConfig, roles, tiers,
                       queue, fxVars>>

-----------------------------------------------------------------------------
(* Registration, freezing and two-phase removal.  The caller is governance,
   or the operator during bootstrap (canManageRegistry). *)

\* The institution record RegisterInstitution and FinalizeFxEntry write; a
\* deleted record has no admin.
WriteInstitution(i, a, t) ==
    /\ admin' = [admin EXCEPT ![i] = a]
    /\ itype' = [itype EXCEPT ![i] = t]
    /\ istatus' = [istatus EXCEPT ![i] = "HEALTHY"]
    /\ iparams' = [iparams EXCEPT ![i] = NoInstParams]
    /\ appConfig' = [appConfig EXCEPT ![i] = NoKey]
    /\ depositKey' = [depositKey EXCEPT ![i] = NoKey]

\* An id is free when no institution has it and no removal is draining it.
IdFree(i) == ~HasInstitution(i) /\ i \notin queue

\* Faulty RegisterInstitution: a registration takes over an id that is still
\* draining and ends the drain.
RegisterWhileDraining(i, a, t) ==
    /\ ~HasInstitution(i)
    /\ WriteInstitution(i, a, t)
    /\ queue' = queue \ {i}
    /\ UNCHANGED <<params, roles, approvals, tiers, epoch, consent, fxVars>>

RegisterInstitution(i, a, t) ==
    /\ IdFree(i)
    /\ WriteInstitution(i, a, t)
    /\ UNCHANGED <<params, rbacVars, fxVars>>

\* FreezeInstitution.
FreezeInstitution(i, frozen) ==
    /\ HasInstitution(i)
    /\ istatus' = [istatus EXCEPT ![i] = IF frozen THEN "FROZEN" ELSE "HEALTHY"]
    /\ UNCHANGED <<params, admin, itype, iparams, appConfig, depositKey, rbacVars, fxVars>>

\* Faulty RemoveInstitution: the id is not queued, so nothing drains it.
RemoveInstitutionUnqueued(i) ==
    /\ HasInstitution(i)
    /\ WriteInstitution(i, NoAccount, "FINANCIAL")
    /\ epoch' = [epoch EXCEPT ![i] = 0]
    /\ consent' = [consent EXCEPT ![i] = {}]
    /\ UNCHANGED <<params, roles, approvals, tiers, queue, fxVars>>

\* RemoveInstitution: the single records (institution, epoch, attestor) go at
\* once, the ranged ones are left to the sweep.  An empty vault is required
\* (module Vaults adds that guard; here no vault is ever filled).
RemoveInstitution(i) ==
    /\ HasInstitution(i)
    /\ WriteInstitution(i, NoAccount, "FINANCIAL")
    /\ epoch' = [epoch EXCEPT ![i] = 0]
    /\ consent' = [consent EXCEPT ![i] = {}]
    /\ queue' = queue \cup {i}
    /\ UNCHANGED <<params, roles, approvals, tiers, fxVars>>

Holders(i) == {a \in Accounts : roles[i][a] # NoRole}
Ranged(i) == Cardinality(Holders(i)) + Cardinality(approvals[i]) + Cardinality(tiers[i])

\* SweepRemovals: what is left of the block's budget when the sweep reaches
\* id i.  Retiring a drained id costs one more; the sweep stops inside the
\* first id that does not fit.
BudgetAt[i \in 1..(NumIds + 1)] ==
    IF i = 1 THEN RemovalBudget
    ELSE LET b == BudgetAt[i - 1]
         IN  IF i - 1 \notin queue \/ b <= 0 THEN b
             ELSE IF Ranged(i - 1) <= b THEN b - Ranged(i - 1) - 1 ELSE 0

\* drainInstitutionRanged within one prefix: n of its records, in key order;
\* keys are hashes and addresses, so any n of them.
Drop(n, S) ==
    IF n <= 0 THEN {S}
    ELSE IF n >= Cardinality(S) THEN {{}} ELSE {S \ D : D \in kSubset(n, S)}

\* Faulty Drained: the sweep forgets the tier records.
DrainedButTiers(i) ==
    LET n == IF i \in queue THEN BudgetAt[i] ELSE 0
    IN  {[roles |-> [a \in Accounts |-> IF a \in held THEN roles[i][a] ELSE NoRole],
          approvals |-> appr, tiers |-> tiers[i]] :
            held \in Drop(n, Holders(i)),
            appr \in Drop(n - Cardinality(Holders(i)), approvals[i])}

\* drainInstitutionRanged: the outcomes of this block's deletions for id i,
\* roles first, then approvals, then tiers.
Drained(i) ==
    LET n == IF i \in queue THEN BudgetAt[i] ELSE 0
        h == Cardinality(Holders(i))
    IN  {[roles |-> [a \in Accounts |-> IF a \in held THEN roles[i][a] ELSE NoRole],
          approvals |-> appr, tiers |-> tier] :
            held \in Drop(n, Holders(i)),
            appr \in Drop(n - h, approvals[i]),
            tier \in Drop(n - h - Cardinality(approvals[i]), tiers[i])}

\* institutionRangedEmpty.
RangedEmpty(out) == Range(out.roles) = {NoRole} /\ out.approvals = {} /\ out.tiers = {}

\* SweepRemovals, in the begin-blocker: an id found empty leaves the queue.
SweepRemovals ==
    /\ \E out \in [Ids -> UNION {Drained(i) : i \in Ids}] :
          /\ \A i \in Ids : out[i] \in Drained(i)
          /\ roles' = [i \in Ids |-> out[i].roles]
          /\ approvals' = [i \in Ids |-> out[i].approvals]
          /\ tiers' = [i \in Ids |-> out[i].tiers]
          /\ queue' = {i \in queue : BudgetAt[i] <= 0 \/ ~RangedEmpty(out[i])}
    /\ UNCHANGED <<regVars, epoch, consent, fxVars>>

-----------------------------------------------------------------------------
(* Onboarding of exchanges *)

\* isActiveFinancialGuarantor.
ActiveGuarantor(g) == HasInstitution(g) /\ itype[g] = "FINANCIAL" /\ istatus[g] # "FROZEN"

\* RequestFxEntry.
RequestFxEntry(i, a, g) ==
    /\ IdFree(i)
    /\ fx[i] = NoRequest
    /\ ActiveGuarantor(g)
    /\ fx' = [fx EXCEPT ![i] = [status |-> "REQUESTED", applicant |-> a, guarantor |-> g]]
    /\ UNCHANGED <<regVars, rbacVars, bootstrap, voted>>

\* GuaranteeFxEntry: the guarantor approves, or declines and clears the request.
GuaranteeFxEntry(i, s, approve) ==
    /\ fx[i].status = "REQUESTED"
    /\ ActiveGuarantor(fx[i].guarantor)
    /\ EffectiveRole(fx[i].guarantor, s) \in {"ADMIN", "OPERATOR"}
    /\ fx' = [fx EXCEPT ![i] = IF approve THEN [@ EXCEPT !.status = "GUARANTEED"] ELSE NoRequest]
    /\ UNCHANGED <<regVars, rbacVars, bootstrap, voted>>

\* FinalizeFxEntry by the operator: free during bootstrap, afterwards on the
\* strength of a PASSED proposal that names the id (requirePassedProposalFor).
\* By governance it is a message of the proposal that passes with it.
FinalizeFxEntry(i, caller) ==
    /\ fx[i].status = "GUARANTEED"
    /\ IdFree(i)
    /\ caller = "governance" \/ bootstrap \/ i \in voted
    /\ WriteInstitution(i, fx[i].applicant, "FX")
    /\ fx' = [fx EXCEPT ![i] = NoRequest]
    /\ voted' = IF caller = "governance" THEN voted \cup {i} ELSE voted
    /\ UNCHANGED <<params, rbacVars, bootstrap>>

\* UpdateParams of the identity module: governance sets the bootstrap phase.
SetBootstrap(b) ==
    /\ bootstrap' = b
    /\ UNCHANGED <<regVars, rbacVars, fx, voted>>

-----------------------------------------------------------------------------
(* Export and import of the module's genesis *)

\* GenesisState.Validate, of an export of this state.
ExportValid ==
    \A i \in Ids :
       /\ HasInstitution(i) => CapsClearFloor(iparams[i], params.floor) /\ fx[i] = NoRequest
       /\ i \notin queue /\ Holders(i) # {} => HasInstitution(i)

\* ExportGenesis, then InitGenesis of a new chain: a removal in progress is
\* exported as completed, everything else verbatim.
ExportImport ==
    /\ ExportValid
    /\ queue' = {}
    /\ roles' = [i \in Ids |-> IF i \in queue THEN [a \in Accounts |-> NoRole] ELSE roles[i]]
    /\ approvals' = [i \in Ids |-> IF i \in queue THEN {} ELSE approvals[i]]
    /\ tiers' = [i \in Ids |-> IF i \in queue THEN {} ELSE tiers[i]]
    /\ UNCHANGED <<regVars, epoch, consent, fxVars>>

\* InitGenesis of a genesis file without pending work.
InstInit ==
    /\ params \in Params
    /\ admin = RootAdmin
    /\ itype = [i \in Ids |-> "FINANCIAL"]
    /\ istatus = [i \in Ids |-> "HEALTHY"]
    /\ iparams = [i \in Ids |-> NoInstParams]
    /\ appConfig = [i \in Ids |-> NoKey]
    /\ depositKey = [i \in Ids |-> NoKey]
    /\ roles = GenesisRoles
    /\ tiers = GenesisTiers
    /\ approvals = [i \in Ids |-> {}]
    /\ epoch = [i \in Ids |-> 0]
    /\ consent = [i \in Ids |-> {}]
    /\ queue = {}
    /\ fx = [i \in Ids |-> NoRequest]
    /\ bootstrap = Bootstrap
    /\ voted = {}

Sensitive(i, s) ==
    \/ \E e \in Grants : GrantInstitutionRole(i, s, e[1], e[2])
    \/ \E g \in {e[1] : e \in Grants} : RevokeInstitutionRole(i, s, g)
    \/ \E p \in InstParams : UpdateInstitutionParams(i, s, p)
    \/ \E v \in AppConfigs : UpdateInstitutionAppConfig(i, s, v)
    \/ \E k \in DepositKeys : SetInstitutionDepositKey(i, s, k)

Onboarding(i) ==
    \/ \E a \in Applicants, g \in Ids : RequestFxEntry(i, a, g)
    \/ \E s \in Accounts, b \in BOOLEAN : GuaranteeFxEntry(i, s, b)
    \/ \E c \in {"governance", "operator"} : FinalizeFxEntry(i, c)

InstNext ==
    \/ \E i \in Ids, s \in Accounts : Sensitive(i, s)
    \/ \E i \in Ids, e \in Registrants : RegisterInstitution(i, e[1], e[2])
    \/ \E i \in Freezable, b \in BOOLEAN : FreezeInstitution(i, b)
    \/ \E i \in Ids : RemoveInstitution(i)
    \/ \E i \in Ids : Onboarding(i)
    \/ \E b \in BootstrapChoices : SetBootstrap(b)
    \/ ExportImport
    \/ SweepRemovals

\* Blocks keep coming, and every block runs the begin-blocker.
InstSpec == InstInit /\ [][InstNext]_instVars /\ WF_instVars(SweepRemovals)

-----------------------------------------------------------------------------
(* Properties *)

\* Ranged records exist only under a registered id or one whose removal is
\* queued, never both: what lets the sweep find every leftover, and an export
\* name only institutions that it contains (types/genesis.go Validate:
\* "unknown institution").
RecordsOwned ==
    \A i \in Ids :
       /\ ~(HasInstitution(i) /\ i \in queue)
       /\ Ranged(i) > 0 => HasInstitution(i) \/ i \in queue

\* A newly registered or onboarded institution starts without any role,
\* approval, tier or epoch of an earlier holder of its id (RegisterInstitution,
\* FinalizeFxEntry: "a removal that is still draining owns the id").
CleanStart ==
    [][\A i \in Ids : ~HasInstitution(i) /\ HasInstitution(i)' =>
          Ranged(i)' = 0 /\ epoch'[i] = 0 /\ consent'[i] = {}]_instVars

\* An account gains a role only when admins worth the threshold in force,
\* the last signer included, have signed that very grant since ADMIN was last
\* granted or revoked in this institution (GrantInstitutionRole); a sweep, an
\* export and import, or an earlier institution of the same id adds no role.
RolesByFreshQuorum ==
    [][\A i \in Ids, a \in Accounts :
          roles'[i][a] # roles[i][a] /\ roles'[i][a] # NoRole =>
             LET signers == {c[2] : c \in {d \in consent[i] : d[1] = <<"grant", a, roles'[i][a]>>}}
             IN  Cardinality(signers \cap Admins(i)) + 1 >= EffectiveThreshold(i)]_instVars

\* A queued removal is drained and its id freed, unless an earlier id joins
\* the queue first (SweepRemovals drains in key order, within the budget).
RemovalCompletes ==
    \A i \in Ids :
       (i \in queue /\ \A j \in 1..(i - 1) : j \notin queue)
          ~> (i \notin queue \/ \E j \in 1..(i - 1) : j \in queue)

====
