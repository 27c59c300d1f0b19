# TLA+ verification of phi-chain

phi-chain is a Cosmos SDK chain that gives every human one identity (a DID),
lets humans govern by one vote each, and circulates a coin (PHI, in units of
uphi) that institutions mint against toman they hold in reserve. This
directory specifies the chain's own modules in TLA+, model-checks them with TLC
on small instances, and proves the central results with TLAPS for every value
of the constants.

- [The system](#the-system): parts, state, operations, interactions
- [Conventions](#conventions): how code becomes actions
- [Modules](#modules): which module models which code
- [Runs](#runs): what TLC checks, with which bounds and why they suffice
- [Fairness](#fairness)
- [Proofs](#proofs): theorems, assumptions, inductive invariants
- [Divergences](#divergences): where the code and its comments disagree
- [Not modelled](#not-modelled)

## The system

| part | state | operations | interacts with |
| --- | --- | --- | --- |
| x/identity: registry | DID documents; controller index; eligibility record per controller; age index; running total | every handler that calls `SetIdentity`; `EligibleControllersSince` | governance reads the denominator, the ante handler refuses non-active controllers |
| x/identity: enrolment | uniqueness markers, issuer table, issuer nonces, `IdentityCount`, bootstrap phase | register, revoke, rotate key, admit/revoke issuer, update params, genesis | registry |
| x/identity: recovery | guardian sets and epochs, recovery requests, nonces, escrow account | set guardians, initiate, approve, reject, execute, cancel, suspend, reinstate, lazy expiry | registry (moves control), x/bank (deposits) |
| x/identity: validators | DID/validator binding, sweep record per controller | staking hooks, end-block sweep, ante guard | x/staking, x/slashing |
| x/governance | frozen basis, ballots, tallies, turnout, prune queue | x/gov hooks, tally function, end-block prune | registry, x/gov |
| x/institutions: registry | institutions, roles, approvals with an admin epoch, fx requests, removal queue | register, remove, sweep, grant, revoke, set params, fx onboarding, freeze | vaults |
| x/institutions: money | vaults, attested reserves, cap counters, references, emergency brake | mint, redeem, attest, set params, prune, slash compensation | x/coin, x/identity, x/bank |
| x/coin: age | lot queue per holder, parameters | mint, transfer, redeem, genesis | institutions |
| x/coin: fees | fee parameters, micro quotas per human, pruning cursor | ante fee deduction and routing, begin-block prune | identity, x/feegrant, x/bank |
| x/credentials | templates, policies by version, anchors, agreements | create, update, deprecate, anchor, revoke, sign, cancel | identity, disclosure, voting |
| x/disclosure | one parameter | verification query | credentials |
| x/voting | elections, nullifiers, tallies | create, cast, close, cancel | credentials, identity |
| app | order of begin/end blockers, burn guard, slash hook | | all |
| generated codec (`*.pb.go`) | none | `Size`, `Marshal`, `Unmarshal` of 188 messages | every transaction, stored record and genesis file passes through it |

### Behaviours that are hard to test

- Derived state. Every write of a document must refresh three indexes and a
  running total; governance reads only those.
- State captured early and used late: a quorum basis frozen when voting
  starts, approvals counted against an admin set that has changed since,
  guardian consent collected under a replaced set, a veto window paused by a
  suspension and resumed under other parameters.
- Work cut into budgeted pieces: vote records, cap counters, micro quotas and
  removed institutions are deleted a few store keys per block, while new
  records appear before and behind the cursor.
- Reuse of names: an institution id removed and registered again, an issuer
  revoked and admitted again, a DID recovered by another key. References,
  nonces and consent must not come back with the name.
- Restart from an export: what the successor chain rebuilds, what it keeps,
  and whether it accepts its own export at all.
- A decoder that is driven by its input: lengths, tags and nested groups come
  from the wire, in varints wider than the fields they fill.
- Integer money: minting, burning and fee splits round; the supply must
  remain worth exactly what the vaults hold.

`PROJECT.json` lists these hazards one by one, each at its line of code with
the properties that cover it.

## Conventions

- **One action per message.** A message that returns an error is rolled back
  whole by the SDK, so it is no step; an action is a message that succeeds,
  with all the writes of its handler. Checks and early returns are its guards.
- **Blocks.** Begin- and end-blocker work is an action of its own. Many
  messages share one block time. Where one end-blocker's work is interleaved
  with messages of a block, the model allows more orders than the code.
  Messages that x/gov executes inside its end-blocker are separate steps.
- **Genesis.** `ExportImport` actions replace the state by what
  `ExportGenesis` writes and `InitGenesis` reads, guarded by the validation.
- **External code** (x/gov, x/staking, x/slashing, x/bank, x/feegrant, the
  proof library, issuers that sign off chain) is modelled from how the code
  here uses it and marked `external` in the map.
- **Cryptography.** A signature is the party or key that can make it; a hash
  stands for what it hashes; a DID is named by the key it is derived from.
- **History variables** (`vetoLeft`, `spent`, `grounds` and their like) are
  written by the actions, read only by properties.
- **Mutants.** A definition whose comment begins with "Faulty" is a plausible
  bug in the definition it precedes. It is no part of the specification; it
  shows that the named property can fail.

## Modules

| module | code | state and actions |
| --- | --- | --- |
| `Eligibility` | `x/identity/keeper/keeper.go` and every caller of `SetIdentity` | `SetIdentity` writes the document and refreshes the controller index, the eligibility record, the age index and the total in one step. One action per way a handler calls it. `CountEligibleControllersAt` is an operator: total minus the tail younger than the cutoff, with the scan ceiling. |
| `Recovery` (extends `Eligibility`) | `recovery.go`, `recovery_epoch.go`, `msg_server_recovery.go`, `msg_server.go` | All handlers that touch guardians, requests and deposits, in full. Lazy expiry happens where the code touches a request. Includes the re-authentication method, which the default build leaves out. |
| `Enrolment` | `msg_server.go`, `issuer.go`, `genesis.go` of x/identity | Registration on an off-chain attestation, issuers, nonces, uniqueness markers, the bootstrap phase, restart from an export. Control over a DID is left to `Recovery`. |
| `ValidatorBinding` (extends `Eligibility`) | `validator_binding.go`, `validator_sweep.go`, `staking_hook.go` of x/identity, `app/ante/identity_status.go` | Binding by staking hooks, the sweep record, the end-block sweep. The verdicts on different validators are independent, so one sweep judges all of them at once. |
| `Tally` | `tally_state.go`, `tally_live.go` of x/governance | Operators on the stored records: the option a weighted ballot counts for, the counters after a first or changed ballot, one pass of the budgeted pruning. |
| `HumanVote` (extends `Eligibility`, `Tally`) | x/governance | Hooks, ballots, running tallies, routing of proposals, the tally function, pruning by budget. FAILED proposals (passed, then failing to execute) are in phase PASSED, which the module treats alike. |
| `Institutions` | registry part of x/institutions | Registration, removal in two phases, roles, approvals and admin epochs, exchange (fx) onboarding, freezing, export. |
| `Vaults` (extends `Institutions`) | money part of x/institutions, the burn guard and slash hook of `app` | Mint, redeem, caps, attestation, brake, references, slash compensation, deposit burns. |
| `PegUnits` | `redeem_split.go`, `MintedUphiForToman` | The arithmetic of toman and uphi, shared by `Peg` and `Vaults`. |
| `Peg` (extends `PegUnits`) | the promise of x/institutions | Abstract specification: mint, redeem, rate change. `Vaults` implements it under the mapping backing = sum of the vaults. |
| `CounterPrune` | `PruneStaleCounters` | The ring walk over counter keys with its stored cursor. |
| `CoinAge` | lot queues of x/coin | Credit, transfer, spend, merge at the bound, penalty, parameters. |
| `Fees` | ante and fee routing of x/coin | One action per delivered transaction: who pays, how it is split, what quota it uses. |
| `Credentials` | x/credentials, the query of x/disclosure | Templates, anchors, agreements; identities change underneath. |
| `Elections` (extends `Credentials`) | x/voting | Elections, ballots keyed by nullifier, parameters. |
| `Unmarshal` | the loop of every generated `Unmarshal`, `skipX` | A step is an iteration of the loop. The stack of nested calls, iNdEx, the message so far; one action per kind of field, one for the skipping of unknown fields, one for all error returns. |
| `Marshal` | generated `Size`, `MarshalToSizedBuffer`, `Marshal`, `sovX`, `encodeVarintX` | Operators: the size and the bytes of a message, each from its own table, and the buffer that the first reserves for the second. |
| `CoinWire`, `CredentialsWire`, `DisclosureWire`, `GovernanceWire`, `IdentityWire`, `InstitutionsWire`, `VotingWire` | the `*.pb.go` files of one module each | Three tables per message, each read off its own method: the cases of `Unmarshal`, the writes of `MarshalToSizedBuffer` with their literal tags, the terms of `Size`. `WireTables` is their vocabulary. |

`Eligibility` is the abstract specification of the registry: `HumanVote` and
`ValidatorBinding` are built on it, and `Recovery`, which has the real
handlers, is shown to implement it. So what is proved of `Eligibility` holds
of the handlers. `Peg` plays the same part for the money. `CounterPrune`
details what `Vaults` does without a budget.

Each `MC` module instantiates a module for TLC and defines only constants and
symmetry sets. Each `.cfg` belongs to one run.

`PROJECT.json` maps every definition that models code to its lines.

## Runs

All runs hold. Each property has a mutant in `PROJECT.json` that breaks it.

| run | checks | instance |
| --- | --- | --- |
| `recovery` | `FreezeMatchesSuspension`, `VetoWindowKept`, `ConsentIsCurrent`, `EscrowMatchesDeposits`, `ControlMovesByRecoveryOnly`, `ExpiredStaysExpired`, and `ImplementsEligibility`: the handlers implement the registry | 2 DIDs, 2 accounts, 2 nonces, so two requests on one DID race; 2 guardian sets that replace each other; 5 block times, enough for a freeze inside the window, a thaw and an expiry. One parameter set: changes of parameters between freeze and thaw are covered by the proofs. |
| `votes` | `DenominatorExact`: the denominator is what the documents say; `VotersWithinBasis`, `TallyMatchesBallots`, `GainIsStamped`, and `DecidedIsPruned` in the end | 1 proposal that can be expedited, converted and routed anew; 2 humans of whom one registers, moves and is revoked during it; weighted ballots; a budget of 1 record a block; a tail scan of 1, which is exceeded; an age rule that changes. |
| `institutions` | `RecordsOwned`, `CleanStart`, `RemovalCompletes` | 2 ids (guarantor and applicant), a budget of 2 keys, below what one institution owns, so a removal spans blocks; bootstrap ends during the run; export and import. |
| `vault_money` | `TodayCounted`, `FloorRedeemable`, `ImplementsPeg` | 6 seconds in days of 2, counters pruned as soon as they are stale; 2 rates, 2 fees, 2 floors; brake off or stepped; carve-outs smaller than a toman. 130,240 states. |
| `vault_control` | `RefsUsedOnce`, `ApproverIsNotAttestor`, `RolesByFreshQuorum` | 3 accounts that change roles under a threshold of 2, a large mint under approval, one change of the admin set, removal and re-registration of the id. |
| `counter_prune` | `StaleCountersGo` | a budget of 1 key a block, keys before and behind the cursor, 3 days. |
| `validators` | `BindingOneToOne`, `SweptSetIdentified`, `TombstoneOnlyRevoked` | 3 DIDs, 3 operators, a scan of 2, 2 block times. |
| `coin_age` | `SpendIsFifo`: oldest first and each unit at its own tier's penalty; `AgeNeverManufactured` | 2 holders, 4 uphi, 3 block times, a lot bound that moves between 2 and 3, so queues overflow and merge. 67,386 states. |
| `fees` | `FeesFullyRouted`, `QuotaPerHuman`, `UnsignedDebitGranted`, `StaleQuotaGoes` | 3 accounts, 2 DIDs that move, 3 days, transactions of one and two messages with a payer who is and is not the sender and a sponsor whom the second message may pay back, fees that do not divide, a pruning budget of 1 key a block. |
| `records` | `AnchorsExportable`, `DisclosureWithinPin`, `CompletedIffAllSigned`, `TalliesMatchBallots`, `ElectorateFixed` | 1 template through 2 versions and 2 policies, 2 DIDs that change status, key and hands, an agreement with and without a deadline, 1 election with 3 voters of whom 2 hold the credential. A behaviour is about one family of records (anchors, agreements or elections; the variable `family`), with the changes of templates and identities that family reads. |
| `enrolment` | `OneHumanOneDid`, `NonceSingleUse` | 3 keys for 2 humans, so a human may try twice; 1 issuer with 2 keys, so it can be re-keyed; 2 nonces; 3 attestations. 102,996 states. |
| `codec` | `RoundTrip`, `Terminates` | all 188 messages: empty, each field alone, all fields at small values, at the edge of a varint group, and at the edge of their type (128 bytes, all bits set, negative, lists of two); behind an unknown field of each wire type, nested groups included; behind eight kinds of damage; for three modules cut off at every byte. 25,705 states. |

`RoundTrip` reads three tables that were taken from three methods, so a field
that `Size` forgets, a wrong tag, a wrong order of bytes or a wrong width all
show as a message that does not come back.

The type invariant of the registry (`EligTypeOK`) is proved, and so are the types
of every other module with a theorem as parts of their inductive
invariants; the runs spend their properties on what relates pieces of state.

### Bounds

The bounds are constants: `MaxTime`, `MaxNow`, `MaxDay` (the clock),
`MaxEpoch` (changes of a guardian or admin set), `MaxVersion`, `MaxTally`,
`MaxSupply`, `MaxBacking`, `MaxOwed`, `MaxAttested`, and the sets of inputs
marked "bound" where the constants are declared. Each stands in a guard of the
step that would exceed it, except where the code has that limit itself
(`MaxTally` is the largest value of a tally counter). Amounts and units are
scaled down (`UphiPerPhi` 4 for a million) with divisors that keep
rounding: the proofs about `Peg` hold for every unit. In `codec` a byte is a
byte, and words have 20 bits (`Word`), narrow integers 10 (`Narrow`) and varints
at most 3 bytes (`Groups`) where the code has 64, 32 and 10: as in the code the
longest varint holds more bits than a word, so bits are lost at the top.

Deadlock is not checked where the bounded clock, or an end of all business,
may stop the system: no transaction need ever arrive, and a chain on which
every identity is revoked has no identity operation left. Where parameter
updates are always possible deadlock is checked.

## Fairness

- `votes`: weak fairness of the end-blocker (`EndSomeBlock`). Blocks are
  produced as long as the chain runs, and every block runs it. No voter,
  proposer or clock is assumed to act.
- `institutions`: weak fairness of `SweepRemovals`, which every begin-blocker
  runs. `RemovalCompletes` speaks of the first queued id: ids are drained in
  key order, so an earlier id that keeps being removed may come first.
- `counter_prune`, `fees`: weak fairness of the begin-blocker that prunes.
- `codec`: weak fairness of the next step: `Unmarshal` is a sequential function.

## Proofs

TLAPS checks every theorem for arbitrary constants under the named `ASSUME`s
(sets of DIDs, accounts, nonces and keys finite; distinguished values outside
their sets; parameters natural numbers). Bounds such as `MaxTime` and
`MaxEpoch` are arbitrary in the proofs.

**`EligibilityProofs`**: `TypeCorrect`, `IndexCorrect`, `EligibilityCorrect`,
`DenominatorCorrect`, `GainStamped`. The property that governance needs,
"total minus tail is the number of eligible controllers" (`DenominatorExact`),
is not inductive: it says nothing of what a refresh starts from. The
invariant `RegistryInv` adds that documents are well formed, that the
controller index lists exactly the stored documents, that each controller's
record is exact for the documents it holds, and that the aggregates (total and
age index) agree with the records. `RefreshExact` shows that one refresh
makes the record of one controller exact and leaves the others alone;
`SetIdentityStep` composes the two refreshes of a change of hands.

**`RecoveryProofs`**: `RecoveryRefinesEligibility` (each handler is a registry
step or leaves the registry alone), `RecoveryKeepsDenominator` (so the
denominator theorem holds of the handlers), `ConsentCurrent`, `FreezeCorrect`,
`VetoWindowCorrect`, `OpenRequestsUsedTheirNonce`, `ExpiryIsFinal`,
`ControlMovesCorrectly`, `EscrowCorrect`. The invariant `RecoveryInv` strengthens
them with, for every open request: its tally epoch is at most the epoch in force,
and when they are equal the approvals are of enrolled guardians; the freeze stamp
follows the suspension and lies in the past; the owner's remaining veto time is
the distance from now, or from the freeze stamp while frozen, to
`executeAfter`. The last is what makes thawing exact. `EscrowCorrect` is about a
sum over the open requests: the sum lemmas of `CountingProofs` give what closing
one of them, or all of a DID, takes out of it.

**`CountingProofs`** holds what those arguments share: induction over finite sets
in the form the provers can use, and what adding, removing or changing one member
does to a sum over a set.

**`HumanProofs`**. Of `HumanVote`: `TallyCorrect`, `VotersCorrect`,
`VoteRefinesEligibility`, `VoteDenominatorCorrect`, `VoteGainStamped`, for any number of humans and
proposals and any pruning budget. The tally is a counter per option that is
bumped up and down and floored at zero; that the floor is never reached, and that
each counter is the number of ballots under its option, is the invariant
`TallyOf`, which a first and a changed ballot keep (`RecountExact`) and which one
pass of the pruning loop keeps for every proposal it does not empty
(`PrunedFacts`, an induction over the passes). The frozen basis is tied to the
members it counted, and every counted voter to those. Governance does nothing to
the registry but run its blocks and set the age rule, so everything proved of
`Eligibility` holds during votes.

Of `ValidatorBinding`: `BindingCorrect`, `SweepCorrect`, `TombstoneCorrect`, for any
number of DIDs, operators and founders. `BindingOneToOne` alone does not survive the sweep, which binds a validator to the DID its sweep record names, nor
the creation of a validator, which overwrites its entry. The invariant
`BindInv` adds to `RegistryInv` that the sweep records agree with the documents,
that only existing validators are bound (removal releases them) and only to
standing DIDs (revocation releases those). `RegistryChange` shows that refreshing
the records of the new and the previous controller keeps all of them exact.
`SweepStep` shows that no two validators of one sweep are bound to the same
DID, since a document names one controller; this is also why the model may judge
all of them at once.

**`CredentialProofs`**. Of `Credentials` and `Elections`: `FamiliesAreJoint`,
`AnchorsAlwaysExportable`, `PinBoundsDisclosure`, `CompletionCorrect`, `TalliesCorrect`, `ElectorateCorrect`.
The run follows one family of records per behaviour; the theorems are about
`JointSpec`, in which templates, anchors, agreements and elections all change
together, and `FamiliesAreJoint` shows that it contains the run's specification.
Completion counts signatures, so the invariant says that a signer signs once and
is required to; the tallies are sums over ballots keyed by nullifier.

Of `Enrolment`: `OneHumanOneDidHolds`, `NonceSingleUseHolds`. The invariant adds
that every registration has left its nonce in the store, and types. Restart from
an export needs `RebuiltExact`: the uniqueness store rebuilt from the documents is
the one that was exported, which in turn needs `OneHumanOneDid` itself.

**`MessageProofs`**. Of `Fees`: `FeesAlwaysRouted`, `QuotaHolds`, `DebitsGranted`, for any
accounts, DIDs, split tables, quotas, pruning budget, and transactions of any number
of messages. The assumptions (`FeeFields`) are what the fields can hold: quotas,
counts and basis points are unsigned, fees and balances integers.
`FeesFullyRouted` is inductive once everything in it is a number. Its steps rest on
three lemmas: the shares of each message add up to its fee, and so do the sums over
the messages (`SplitAdds`, from `SumPlus`); a transfer leaves the sum over the
accounts (`MoveSum`); and what every message keeps, the whole transaction keeps
(`AppliedKeeps`, an induction over its messages). `AppliedSum` also says that only a
sender can lose by the messages, which is what `DebitsGranted` needs.
`QuotaPerHuman` is not inductive: `QuotaInv` adds that today's counter of a DID is
exactly the number of its exemptions today, which pruning keeps since it stays below
today, and that no counter is dated after today, without which a new day could start
with some of its quota used.

Of the decoder (`Unmarshal`): `UnmarshalInBounds`, `UnmarshalAdvances`. For every
input, every table of fields and every width of the integers, it reads only inside
the slice of the call it is in, and every step returns, consumes a byte, leaves a
nested call or moves on inside the loop. Together they bound the number of steps by
the length of the input; the step from there to `Terminates` needs fairness and is
left to TLC. `ReadsInBounds` is made inductive by typing the stack and keeping one
frame on it at least (`WireInv`). The lemmas `AfterAdvances` and
`PostIndexAdvances` say of a varint and of a length what the loop relies on: a read
that is not refused ends behind its first byte and within the slice, whatever the
value read.

**`InstitutionProofs`** and **`VaultProofs`**, on x/institutions: every safety
property of `Institutions` and `Vaults`, for any number of ids, accounts, messages,
parameter sets, rates, caps and carve-outs. The first module has the units and what
each step keeps; the second adds the money and concludes. The assumptions are that
a message moves a positive amount (`ValidateBasic`), that caps are natural numbers
(`CapInt`), that a day has a length, and that the set of carve-outs has every fee
the parameters can charge.
- The units: `RedeemSplitSound`. For every unit, rate that divides it, carve-out
  and amount, the split conserves the surrendered coin and the burn is a positive
  whole number of toman.
- The peg: `PegSolvent`, and the refinement, `VaultImplementsPeg`, from which
  `VaultSolvent` follows. `PegInv` adds to solvency that the rate divides the unit,
  which makes every conversion between toman and uphi exact; `MoneyInv` adds the
  types of the vaults. One vault changes at a time, so the sum over all of them
  moves by what it paid or received (`VaultMoves`, from `SumChange`). A slash is
  compensated, and a governance burn finds nothing to burn: with empty vaults
  there is no supply.
- References and counters: `RefsNeverReused`, `CountersExact`. `RefsInv` adds that
  a reference without a marker was never executed; `DayInv` that no counter but
  an emergency one is dated after today, without which the first block of a day
  could find that day's counters already filled.
- The floor: `FloorAlwaysRedeemable` needs no history, only the types: `FloorFits`
  shows that each cap, read through the floor, leaves room for it, and the
  reservation stands against the use others made of it.
- The registry: `RecordsAlwaysOwned`, `StartsClean`, `RolesNeedFreshQuorum`, and
  for the registry with money `VaultRecordsOwned`, `VaultStartsClean`,
  `VaultRolesByQuorum`. `InstInv` adds that what is queued for removal is not
  registered, that a free id has no records and an unregistered one neither epoch
  nor consent (`Owned`), that no approval is dated after the epoch, and that behind
  each approval of the current epoch is a consent given since the admin set last
  changed (`Fresh`). Every step of either specification is one of six kinds of
  `RegistryStep`; drains, exports and removals only ever shrink the records of an
  id (`Shrunk`), and arrivals are of ids without records.
- Minting and attesting: `MintAndAttestSeparated`. The code compares the attestor
  with the signer of the moment only. `SepInv` says of every waiting approval of a
  mint that a reserve was attested and that it is not that of an admin who attested
  it, unless it is of an earlier epoch. It needs `Fresh`: whoever becomes ADMIN does
  so under a new epoch, later than every approval on record.

Only model-checked:
- liveness (`DecidedIsPruned`, `RemovalCompletes`, `StaleCountersGo`,
  `StaleQuotaGoes`, `Terminates`): fairness is beyond the prover;
- `RoundTrip`, `SpendIsFifo`, `AgeNeverManufactured`: the encoder and the lot
  queues are recursive, and what a recursive definition computes for every input
  is beyond it too.

## Divergences

Met while modelling: places where the code does something else than a comment, a
validation rule or a test says. The models follow the code. The properties of
the runs are stated so that they hold of the code as it is, and none of the runs
is about these.

| code | what it does | what is said |
| --- | --- | --- |
| `x/identity/keeper/keeper.go:315` | Standing gained in the very second of the freeze is admitted to vote but not counted in the denominator, so turnout can exceed it. | "turnout numerator stays a subset of the once-frozen denominator" (`x/governance/invariants.go:18`) |
| `x/governance/keeper/tally_state.go:221` | The voter records of a decided proposal go before its turnout and basis. | The registered invariant requires the counted records to equal the turnout (`x/governance/invariants.go:54`). |
| `x/governance/keeper/tally_state.go:226` | The aggregates of a proposal are deleted without a further look at the budget. | "PruneStep deletes at most budget records" (`tally_state.go:187`) |
| `x/identity/keeper/recovery.go:137` | A thaw under shortened parameters leaves a request that expires before it may be executed. | "require initiated_at < execute_after < expires_at" (`x/identity/types/genesis.go:199`) |
| `x/identity/keeper/msg_server_recovery.go:295` | The owner of an ACTIVE DID who also controls one that is not cannot send the cancel, while anybody may execute. | "this also keeps the owner's cancel-veto reachable" (same line) |
| `x/institutions/keeper/msg_server_rbac.go:71` | Granting an ADMIN a lesser role shrinks the admin set and leaves pending approvals valid. | "Revoking an ADMIN shrinks the admin set: invalidate pending approvals" (`msg_server_rbac.go:105`) |
| `x/institutions/keeper/msg_server.go:55` | An id with a pending fx request can be registered directly. | "each must have a unique fx_id that is not already an institution" (`x/institutions/types/genesis.go:126`) |
| `x/institutions/keeper/keeper.go:72` | A raised redeem floor leaves stored caps below it. | "The redeem floor applies here too." (`x/institutions/types/genesis.go:102`) |
| `x/coin/types/genesis.go:46` | A lowered lot bound leaves longer queues, which the validation of the export refuses. | "The lot queue round-trips through genesis" (`x/coin/keeper/coin_age_fifo_test.go:156`) |
| `x/coin/types/coin_age.go:95` | A merge at the bound can turn young coin old; the weighted acquisition time never falls (`AgeNeverManufactured`). | "the recipient of young coin gets young coin" (`coin_age_fifo_test.go:75`) |
| `x/identity/keeper/msg_server.go:249` | Governance can begin the bootstrap phase again. | "irreversible latch" (`msg_server.go:60`) |

## Not modelled

- Transaction signatures and WebAuthn, the phi-crypto binding, byte formats of
  attestations, proofs and markers: no state of their own. The models take the
  signer of a message, or the validity of a proof, as given.
- Queries other than the disclosure verification, the command line, service
  registration.
- CheckTx and simulation: their effects are discarded.
- x/gov's own store of votes, and validators' bonded tokens beyond being
  positive.
- The isolation of errors and panics in the validator sweep.
- In `Vaults`: holders' balances, which x/bank guards; the `PausedMint` flag,
  which only genesis sets.
- In `CoinAge`: coin that bank sends and fees move carries no age, as in the
  code, so a queue may track more or less than its holder has.
- In `Elections`: the default build refuses every ballot; the model is of the
  build with the proof system (`SoundnessEnforced`), and the constant FALSE
  gives the default.
- The parameter of x/disclosure, and the ante decorator that refuses
  governance parameters that would burn deposits; the burn guard behind it is
  modelled.
- Of the generated code: descriptors, getters, `String`, the gRPC stubs and the
  REST gateways, which have no state and no rules of their own. Text is decoded
  as bytes; the generated code does not check it either.
- The decimal scaling of turnout to bonded tokens, at 18 digits.
- Genesis founders beyond their binding, and compositions that would multiply
  two large state spaces (`Vaults` with `CoinAge`, `HumanVote` with `Recovery`):
  each pair meets at an interface that both sides model.
