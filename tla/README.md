# vault-plugin-secrets-nats in TLA+

A Vault secrets engine that keeps the operators, accounts and users of a NATS
deployment: their nkeys (seeds), the JWTs that chain them together, and the
`issue` entries a client writes to say what should exist. This directory holds
TLA+ modules that model the engine, TLC configurations that check them on small
instances, and TLAPS proofs of what matters most.

    tlc -config InOrder.cfg MCNatsBackend                  # any run
    for F in *Proofs.tla; do tlapm $F; done                # all proofs

Line numbers refer to the repository's files; `PROJECT.json` maps every
definition to its lines.

## The system

| component | state it keeps | operations | what makes it correct |
|---|---|---|---|
| storage primitives (`backend.go` 121-162) | one Vault entry per path | get, put, delete, list; each atomic, each may fail | an error is passed up, the rest of the handler is skipped |
| nkeys (`paths_nkey*.go`) | `nkey/...`: one seed per operator, account, user and signing key | add (import or generate), delete | a stored seed is not replaced by a generated one; none is left that nothing leads to |
| imported JWTs (`paths_jwt*.go`) | `jwt/...` | add, delete | what was imported is stored |
| user issues (`paths_issue_user.go`) | `issue/.../user/U`: template and status | add, refresh, delete (revoke, then erase) | a key is revoked before it is forgotten |
| credentials (`paths_creds_user.go`) | none | read | credentials belong together and the account accepts them |
| account issues (`paths_issue_account.go`) | `issue/.../account/A`: parameters, claims (with revocations), status | add, refresh, delete, revoke a user | JWT matches issue and keys, revocations survive refreshes |
| operator issues (`paths_issue_operator.go`) | `issue/operator/O`, `jwt/operator/O` | add, refresh, delete, generate the system account | JWT vouches for every key accounts are signed with |
| account server (`refreshAccountResolver`, `pkg/resolver`) | the JWTs the NATS account server holds | push an account, delete an account, push all | failures never stop a deletion or an update |
| periodic function (`backend.go` 185-329) | none | repair accounts, repair users, push, for one operator after the other | completes what was interrupted, revives nothing, reaches what can be reached |
| templates (`paths_creds_user.go` 235-330) | none | parse parameters, find variables, replace placeholders | every placeholder gets its value, in any order |
| claims (`pkg/claims`) | none | convert account and user claims | a conversion fails or keeps everything |

There is no shared memory between handlers. They interact through storage and
by calling each other, and the calls are mutually recursive: creating an
account's nkey refreshes the account's users; creating the sys account's nkey
refreshes the operator; refreshing the operator creates its nkeys, refreshes
every account, issues its JWT and writes the sys account and its push user;
storing the push user pushes every account. None of this holds a lock (the
`lock` of `NatsBackend` guards a client nothing uses), so two requests, or a
request and the periodic function Vault's rollback manager calls, interleave
at every storage access. Storage accesses fail, the plugin process is killed,
and the account server refuses, is unreachable or answers too late.

`PROJECT.json` lists the components that are left out, and why, and under
`hazards` each place in the code where this bites.

## The model

The handlers have one module per component, each extending the one it builds
on. What they abstract from (messages, the clock, several operators, texts) has
models of its own:

    NatsStorage -> Nkeys, UserIssues -> AccountServer -> AccountIssues
                -> OperatorIssues -> Periodic -> NatsBackend -> NatsReads
    NatsReads -> NatsProperties -> MCNatsBackend                       (TLC)
                 NatsProperties -> NatsBackendProofs -> CallProofs
                                -> OneAtATimeProofs -> SigningProofs (TLAPS)

    AccountSync <= Resolver -> MCResolver, ResolverProofs
    CredentialLife -> MCCredentialLife, CredentialProofs
    PeriodicRounds -> MCPeriodicRounds, RoundsProofs
    Claims -> MCClaims, ClaimsProofs
    Templates -> MCTemplates

### The handlers

The chain is flat because the code is one Go package whose functions call each
other across files; an operator that queues a call (`refreshUser(a, u, i)`)
stands for the Go function of that name.

**State.** `opIssue`, `accIssue`, `userIssue`, `nkey`, `opJWT`, `accJWT` are the
storage entries; `server` is the account server's. A seed is known by its path
and generation (`minted` counts how many a path has had), so its public key
`Pub(p)` is the pair of both and two generations of a key differ; generation 0
is a seed from elsewhere. An imported seed is a new one: importing a seed that
was stored before is not modelled. A JWT is a record of public keys, claims and
revocations. An account's claims are a model value that converts or does not.

**Goroutines.** Each worker has an `agenda`: its call stack, flattened to the
sequence of calls it still has to make. A step takes the first call, executes
it up to at most one storage write, and puts the calls that follow from it in
its place (`Do`). What the Go code holds in local variables is in the call's
record: the copy of an issue read long ago, the list of names a loop works
through. `return err` is `Unwind`: it drops everything up to the next `catch`,
which stands where a caller ignores or logs an error. A nil dereference
(`Panic`) ends the process and with it every agenda. `reply`, the last call of
a request, is reached only when the request succeeds.

**Grain.** One action per Go function or per turn of a loop; functions that
write twice are split at the writes; `addNkey` is split between its check and
its put. Reads that one function makes in a row without a write or a network
call between them (the three key reads of `generateUserJWT`, the reads at the
head of `refreshAccountResolver`, the account and nkey reads of
`addUserToRevocationList`, get and put of `storeUserIssue`) are one step.
With one worker, as in most runs, this cannot be told apart from the code. The
concurrent run asks about writes: the scenarios of `AtOnce` depend on the order
of puts, deletions, listings and JWTs, which are separate steps. So a race
inside such a group of reads is not shown by any run, and no claim is made
about it. Loops over storage listings and key lists take their elements in any
order, which contains the order of the code.

**Faults.** `StorageError`: any call that accesses storage returns an error
before its write. Where the code swallows an error there is an action instead:
`StatusUnread` (`updateUserStatus` takes an unreadable nkey for missing),
`SyncSkipped` (`periodicFunc` skips an account it cannot read). `Crash` loses
every agenda. Account server failures are outcomes of `PushAccount` and
`DeleteAccounts`, never bounded.

`revoked` (keys some stored account JWT has revoked), `faults` and `panicked`
are history variables; no guard of a handler reads them (`faults` bounds the
faults).

**Reads.** `NatsReads` has what read requests answer, as functions of the
state: the status of an operator is made while it is read, that of accounts and
users is the one the last refresh stored.

### The account servers

`AccountServer` takes a push or a deletion for one step that succeeds or not.
`Resolver` is the exchange of messages behind it, for one account, any number
of servers, and any number of handlers that look after the account at the same
time: the code has no lock around it, so the periodic function or a refresh may
push the account while its deletion waits for replies, and `issueAccountJWT` may
store a new JWT while an old one is pushed. Each handler has a call: `Begin`
reads issue and JWT (two reads of the code in one step), `Publish` sends a
request to all servers under a fresh inbox (`nats.NewInbox`), `NextReply` and
`Deadline` are the loop of `multiRequest`, `PushReturns` stores the copy of the
issue, `DeleteReturns` and `DeleteIssue` erase JWT and issue one after the
other. Servers `Take` or `Refuse` a request at any later time; replies after the
loop has ended go nowhere, while what a server took it holds. A reply without a
server object ends the process (`NilServer`). `site` says where a behaviour takes
place (who has which duties, which servers and replies there are) and stays the
same. The only history is `clean`: was this deletion sent with nothing else under
way, and has nobody published since?

`AccountSync` says what the backend may rely on, without messages: handlers
offer a JWT or a deletion, servers take an offer late or never and may confirm
it, and `Synced` is set only if a server took the very JWT that was pushed while
the push lasted. `SyncSpec` (`INSTANCE AccountSync WITH calling <- ...`) is the
refinement.

`ConfirmedDeletion` says what a count of all servers is worth: the account is on
none of them, provided nothing was under way when the deletion was sent and
nobody has published since. Without that it is worth nothing: a push that has
read the JWT before it is erased may bring the account back after all servers
confirmed its deletion (`Undeleted` below).

### The clock

In `NatsBackend` a revocation is for ever. In the code it carries the second it
was made in and rejects what was issued up to then. `CredentialLife` has one
account and one user name with the clock: creating credentials is split at its
reads of template, nkey and seed and at the signature, the deletion at each
write. `Tick` may come between any two steps, or not at all. `rewritten` is a
history variable: a client has written the account's claims, which replaces the
revocations.

### The rounds of the periodic function

`PeriodicRounds` reduces an account to six bits (issue, signable, JWT and nkey,
status, held by the server) and keeps the loops: operators and accounts in the
order Vault lists them, a repair of all accounts before each push, errors that
are logged (in the repair) and errors that end the call (of a push). Clients
change anything between two steps.

### Texts and claims

`Templates` works on sequences of tokens (a pair of braces, a blank, an equals
sign, a word): parsing the pairs, looking for variables, replacing one key after
the other in any order, as Go goes through a map. It is checked against
`Filled`, which fills the pieces of the template in all at once. `Claims`
converts claims part by part, in the order of `Convert`; a part is a text that
is understood or not. What is signed is checked against `Meant`, and that it is
signed at all against `Understood`; the time to live of an account's default
permissions is the one exception of both, for the code passes over its error
(`pkg/claims/account/v1alpha1/convert.go:143-147`).

## The runs

| run | scenario | checks | shows |
|---|---|---|---|
| `InOrder` | `Orderly`: operator with and without system account, two shapes of account, users with and without signing key, deletions, credentials, periodic; `Revoking`: two users come and go while operator and account change; `SysAccountCycle`: the system account and its push user come and go under pushes. 1 worker | `TypeOK`, `TrustChain`, `CredsVerify`, `NoPanic`, `StatusTrue`, `RevocationsKept`, `CurrentStaysHeld` | the recursion of refreshes ends with JWTs that form one chain, whatever came before; credentials are accepted after keys were replaced and accounts created again; no refresh, repair or nested write loses a revocation or takes the current JWT from the server |
| `CutShort` | `Disturbed`: creations, deletions, removal of signing keys, periodic; `Imports`: nkeys and JWTs written and deleted directly, claims that do not convert, a push user without credentials. 1 worker, 1 fault | `NoOrphanKeys`, `DeletedIsGone`, `PeriodicHeals`, `RevokedBeforeErased`, `OnlyRequestsCreate`, `SeedsKept` | any one interruption of any handler is recoverable; a stored seed is only replaced by an import |
| `AtOnce` | `Creation`: operator with system account, an account, a user; `Removal`: a user comes and goes while the periodic function runs. 2 workers | `NoAccountLeftUnsigned`, `RevokedBeforeErased`, `RevocationAhead` | every interleaving signs every account; the nkey outlives its revocation in every interleaving, nil dereferences of the periodic function included |
| `Ending` | `SysAccountCycle`, 1 worker, 1 fault, fair | `RequestsEnd` | the recursion always ends |
| `Pushing` | the rollback manager pushes while a client deletes or pushes the same account, whose JWT changes; or one call at a time, and two servers; replies late, missing, refusing or without a server, crashes, fair | `TypeOK`, `ConfirmedDeletion`, `SyncSpec`, `CallEnds`, `Converges` | `Resolver` implements `AccountSync`; a deletion that all servers confirmed is one if nobody pushes meanwhile; repeated pushes win over late requests, refusals and pushes of older JWTs |
| `Deleting` | credentials, deletion, creation under the same name, claims updated; 1 worker, 2 faults, 3 seconds, 2 keys, expiry of none or a second | `TypeOK`, `LockedOut`, `RevocationsStay` | credentials of a deleted key are rejected, also after a deletion that had failed half-way |
| `Rounds` | two operators of two accounts, a change and a storage error at any step, fair | `TypeOK`, `OneRoundRepairs`, `HealthyConverge` | one undisturbed call repairs what it can reach; repeated calls push each healthy account whose way is clear |
| `Filling` | templates of up to three pieces, up to three pairs | `FilledIn` | every placeholder is replaced by its value, in every order |
| `Converting` | lists of up to two | `AllOrNothing` | a conversion fails or keeps everything, but for the time to live of default permissions |

Bounds of the runs of `MCNatsBackend`: accounts `sys` and `acc`, users
`default-push` and `usr`, one operator and one account signing key; two
accounts distinguish the system account from another, two users the push user.
A run starts in any of its scenarios: the set of requests its clients make,
which stays the same. `MaxMint = 2`: once a path has had two seeds no request
starts any more but for credentials, so keys are created, deleted and created
again (a new generation is what makes stale JWTs visible), a request under way
may still mint more, and credentials are made with keys of either generation.
`MaxFaults`: at most one storage error or crash, at any step; one is enough to
stop any handler anywhere, and the requests after it are what the properties
are about. `Repeat`: with TRUE a request may be made any number of times in any
order (one worker); with FALSE each is made once (two workers).
With one worker handlers do not overlap, so the properties of `InOrder`,
`CutShort` and `Deleting` say nothing about races; those are the subject of
`AtOnce`, `Pushing`, `Rounds` and of the counterexamples with two workers.

The other bounds: two JWTs and two inboxes make one request late with respect
to another, in both directions; two keys and three seconds let one key be older
than the revocation of the other, and two faults let a deletion fail and its
repetition fail again; with two operators and two accounts one of each comes
first. `Rounds` starts with all accounts signable or all but one of the first
operator, and one push user at least in order; the change at any step reaches
the others.

`Pushing` takes place at one of five sites (`MCResolver`): one handler pushes
what the other deletes, with two servers and one JWT, or with one server and a
JWT that changes; both push a JWT that changes; one handler does both at two
servers, one call at a time; nobody can be reached. Refusals, unreadable,
nameless and empty replies are one to `multiRequest`, so of these there is only
`error`; replies without a server object come where there is one call at a time.

`PeriodicHeals` speaks of the case where every account can be signed and pushed
(`Healthy`), because one that cannot ends the loop over all of them. What then
happens to the others is the subject of `HealthyConverge`, for which the way
must be `Clear`.

**Fairness.** `NatsBackend`: weak fairness of `Step(w)` for each worker, for a
goroutine with work to do is scheduled again by the Go runtime, and no handler
waits for another; receiving requests and faults are not fair. `Resolver`: each
handler's `Step` goes on (the deadline is a timer); the rest
is an assumption on the environment: the rollback manager has the account
pushed again and again, a push can be published again and again and finds
servers that do what the newest request asks again and again, and an outdated request
is not under way for ever. `PeriodicRounds`: the function is called again, goes
on when called, and a push that is tried again and again is taken some time.

Every property of a passing run has a mutant in `PROJECT.json`: a definition
changed the way a bug in the code would change it, under which the same run
finds the property violated. The mutants are the operators commented
"mutant:" next to what they replace.

### Where code and text disagree

Three runs each check one sentence of the repository and find it violated.

| run | sentence | what happens |
|---|---|---|
| `OperatorDelete` | "delete issue and all related nkeys and jwt" (`paths_issue_operator.go:185`) | with a system account, the operator's nkey is deleted first (302); deleting the push user (327) must sign the sys account's JWT and fails; repeating the request fails again. The test at `paths_issue_operator_test.go:561` asserts this error |
| `Resurrection` | "delete issue and all related nkeys and jwt" (`paths_issue_account.go:197`) | `SyncCreatesNothing`: the periodic function stores the issue it read before a push, and a deletion in between is undone (`backend.go` 214-229) |
| `LateCreds` | "add deleted user to revocation list and update the account JWT" (`paths_issue_user.go:305`) | the revocation carries the second it was made in; credentials made after that and before the nkey is deleted stay valid |

`Resurrection` starts when the operator, its system account and an account have
been created, and asks only about the issue the periodic function stores after a
push. Deleted accounts also come back another way, which is shorter and which
`OnlyRequestsCreate` finds with two workers: `updateAccountIssues` has read the
issue (`paths_issue_operator.go` 641-644), the account is deleted, and
`addAccountNkey` adds a default issue (`paths_nkey_account.go` 184-189).

Further counterexamples, in configurations that stand beside the runs:

| configuration, module | property | what happens |
|---|---|---|
| `SysSigningKeys`, `MCNatsBackend` | `DeclaredKeysExist` | writing the sys account with a signing key refreshes the operator, which rewrites the sys account without it from inside; the outer call then stores an issue whose signing nkey does not exist |
| `OrphanedKeys`, `MCNatsBackend` | `NoOrphanKeys` | deleting the push user of an operator whose system account has lost its nkey creates the operator's signing nkeys again, which its deletion then leaves behind |
| `ImportRace`, `MCNatsBackend` | `SeedsKept` | check and put of `addNkey` are separate: a generated seed replaces one imported in between |
| `ImportOperator`, `MCNatsBackend` | `ImportedJWTStored` | the issue created along with the import issues an operator JWT over the imported one |
| `LostRevocation`, `MCNatsBackend` | `RevocationsKept` | with two workers, a refresh signs the copy of the issue it read before a revocation and stores the JWT after it |
| `StalePush`, `MCNatsBackend` | `CurrentStaysHeld` | with two workers, the older of two JWTs of an account is pushed last |
| `LeftoverUser`, `MCNatsBackend` | `PushUserReady` | the system account is deleted, its push user stays, and the operator's status reports a JWT nobody can make |
| `Undeleted`, `MCResolver` | `DeletionLasts` | a push that read the JWT before the deletion erases it puts the account back on a server after all servers confirmed the deletion |
| `Refused`, `MCResolver` | `UntilNoResponses` | a refusal ends the loop of replies while an acceptance waits behind it ("try with decreasing timeout until we dont get responses") |
| `Starved`, `MCPeriodicRounds` | `EveryOperatorPushed` | the push user of one operator cannot sign: every call of the periodic function ends there, and later operators are never pushed |
| `Blanks`, `MCTemplates` | `NoneLeft` | `{{ a }}` is asked for as the variable `a`, and only `{{a}}` is replaced |
| `Order`, `MCTemplates` | `FilledIn` | a value that reads like a placeholder is replaced in turn or not, as the map is gone through |
| `Lifetime`, `MCClaims` | `TimeToLive` | default permissions with a time to live that is no duration are signed without one |

## The proofs

TLAPS checks these for every value of the constants, that is, for any number of
workers, accounts, users, keys, requests, servers, operators or list elements,
and without the bounds of the runs. Where a theorem needs more than the
assumptions named in the modules, which TLC evaluates in every run, its
hypothesis is given here.

| theorem | module | states | hypotheses |
|---|---|---|---|
| `TypeCorrect` | `NatsBackendProofs` | `TypeOK` | |
| `RevocationIsAhead`, `RevocationFirst` | `NatsBackendProofs` | `RevocationAhead`, `RevokedBeforeErased` | |
| `NoNilDereference` | `OneAtATimeProofs` | `NoPanic` | one worker |
| `StoredSeedsStay` | `OneAtATimeProofs` | `SeedsKept` | one worker |
| `NoAccountComesBack` | `OneAtATimeProofs` | `OnlyRequestsCreate` | one worker |
| `StatusIsTrue` | `OneAtATimeProofs` | `StatusTrue` | one worker, `MaxFaults = 0`, `NothingTaken` |
| `CurrentIsKept` | `OneAtATimeProofs` | `CurrentStaysHeld` | one worker, `OwnSubjects` |
| `NoSigningKeyOrphaned` | `SigningProofs` | `NoOrphanKeys` | one worker, `RootsAsked` |
| `DeletedStaysNowhere` | `SigningProofs` | `DeletedIsGone` | one worker, `RootsAsked`, `NothingImported` |
| `ResolverTypeCorrect` | `ResolverProofs` | `TypeOK` | |
| `ResolverImplementsSync` | `ResolverProofs` | `SyncSpec` | |
| `DeletionConfirmed` | `ResolverProofs` | `ConfirmedDeletion` | |
| `LifeTypeCorrect` | `CredentialProofs` | `TypeOK` | |
| `DeletedIsLockedOut` | `CredentialProofs` | `LockedOut` | one worker |
| `RevocationsAreHeld` | `CredentialProofs` | `RevocationsStay` | one worker |
| `RoundsTypeCorrect`, `RoundRepairs` | `RoundsProofs` | `TypeOK`, `OneRoundRepairs` | |
| `ConvertsAllOrNothing` | `ClaimsProofs` | `AllOrNothing` | |

"One worker" is `Workers = {one}`: requests and periodic calls do not overlap.
It is needed: with two workers `Resurrection` shows an account that no request
creates (against `OnlyRequestsCreate`), `ImportRace` and `LateCreds` refute
`SeedsKept` and `LockedOut`, `StalePush` refutes `CurrentStaysHeld`, and the periodic function does dereference an issue deleted
under it.

### The handlers

The named assumptions are `NamesAssumption` (the two distinguished names exist,
default claims convert, bounds are numbers), `NoneAssumption` (`None` is no
entry) and `RequestsAssumption` (requests are well-formed).

* `TypeOK` types the agendas too: every pending call carries the parameters its
  handler takes. It is inductive as it stands. For each action a lemma says
  what it leaves in storage and that it fails or replaces the first call by
  well-typed ones (`Calm`); lemmas on sequences say that `Do`, `Fail` and
  `Panic` then keep `AgendaOK`.
* `RevokedBeforeErased` is not inductive: when the deletion of an nkey comes to
  the top of an agenda nothing says what was executed before.
  `RevocationAhead` speaks of the deletion wherever it stands: its key is
  revoked already, or the call that makes the revoking JWT (`issueAccountJWT`
  with the revocation in its copy of the issue) or stores it (`addAccountJWT`)
  stands ahead of it with no `catch` in between. This is kept because calls
  pushed in front disturb neither (`Guarded` looks only at what is ahead), an
  error that unwinds the guard unwinds the deletion, `issueAccountJWT` hands
  the guard on to `addAccountJWT`, and `addAccountJWT` adds the keys to
  `revoked`. Only `AddUserToRevocationList` puts a deletion on an agenda; it,
  `IssueAccountJWT` and `AddAccountJWT` have lemmas of their own, and all other
  actions put "quiet" calls, which reduces them to one lemma.
* `CallProofs` is about the recursion. The handlers call each other to any
  depth, so nothing can be said of an agenda but by what each call may leave in
  its place. `MayCall(t, c)` says what a call `c` made by `t` must not do
  unless `t` might: erase an issue, erase a user, create an account, replace a
  seed, make a status untrue, delete an account's JWT from the account server,
  give an nkey or a JWT to an entity without an issue. It also says that
  a push carries the JWT in storage when `refreshAccountResolver` decides on it.
  One lemma per action shows that it keeps to that.
* `OneAtATime`, the invariant behind all theorems with one worker, says of the
  agenda: it ends in the `reply` of its request; no call that needs
  an issue comes after one that leads to its deletion (`Ordered`); the copies
  and lists that calls carry still name what exists (`Sane`); a call that would
  create an account belongs to an account that exists or to a request that may
  create it (`Faithful`); the operator's nkey is created right before its JWT
  is issued (`KeysAhead`); a `putNkey` finds its path empty unless the request
  imports (`Seeded`). `NoPanic` follows from `Sane` and `KeysAhead`,
  `OnlyRequestsCreate` from `Faithful`, `SeedsKept` from `Seeded`. Errors and
  crashes only take calls away, and these statements survive that.
* `StatusTrue` speaks of moments without requests. In between, an account whose
  nkey or JWT is being deleted has an untrue status, so `StatusKept` says: a
  stored status is true, or a call that deletes the issue or stores a status
  anew is on the agenda (`Doomed`, `Removes`), and every call that undoes a
  status has such a call behind it (`Paired`). An error in between leaves it
  untrue until the next refresh, therefore `MaxFaults = 0`. `NothingTaken` says
  no request deletes just the nkey or JWT of an account or user: the code
  (`paths_nkey_account.go`, `paths_jwt_account.go`) then leaves the issue's
  status as it is.
* `CurrentStaysHeld` is about the account server and storage together.
  `PushedIsStored` says that a push is the first call of the agenda when it is
  there at all, that its JWT is the one in storage, and that a call which
  deletes an account's JWT from the server belongs to a request that deletes
  this account or the operator. A push so replaces a JWT by the stored
  one, or leaves JWTs of other subjects alone: `OwnSubjects` says that no
  account JWT is imported whose subject is the nkey of another account, and the
  invariant that no other is stored or about to be (`paths_jwt_account.go`
  stores what it is given; the server keeps one JWT per subject, so a foreign
  subject would displace the other account's). Faults and crashes are
  allowed: an unwound push is not sent.
* `NoOrphanKeys` too speaks of moments without requests, and those come after
  any error. `RootsKept` says that a stored signing nkey is declared at every
  step, and that the calls to come keep it so: a call that ends a declaration
  has the deletion of the nkey before it and nothing between the two at which
  an error would stop (`Settled`); a call that creates an nkey finds its
  declaration stored, or the call that stores it comes first (`Rooted`). Both
  are about pairs of calls, so for each handler a lemma says that what it puts
  on the agenda has these pairs and that it fits what is already there
  (`Fits`); four lemmas then say what becomes of an agenda whose first call
  stores or deletes an issue, deletes nkeys, does neither, or fails.
  `RootsAsked` says that no request creates a signing nkey itself
  (`paths_nkey_account_signing.go`, `paths_nkey_operator_signing.go` do so
  without looking at the issue), and that, if the operator is ever deleted, it
  was not given a system account. Without the second, the operator's deletion
  can make it anew: the system account's nkey was deleted; deleting the push
  user (`paths_issue_operator.go:327`) refreshes the account, which creates
  that nkey, which refreshes the operator, which creates the signing nkeys
  that were deleted before (307-317), and the deletion succeeds
  (`OrphanedKeys`, without any fault).
* `DeletedIsGone` is about the end of a deletion, and what makes it true is
  done long before. `Grounded` says two things. An nkey or JWT
  is stored only where its issue is, and a call that creates one finds the
  issue there, or is preceded by the call that stores it with no `catch`
  between (`Based`): an error that keeps the issue from being stored takes the
  creations with it. And of all calls only the last one before
  the reply deletes an issue or leads to that, it is the one asked for, and
  when it is the call that deletes, every call before it deletes as well, among
  them those that take the nkey and the JWT if these are stored (`Ends`). So
  the issue goes last, and what a failed deletion leaves behind still has its
  issue, for the next request to find. Signing nkeys are left to
  `NoOrphanKeys`, which is why `RootsAsked` comes in: no issue declares them
  any more. `NothingImported` excludes the requests that write nkeys or JWTs
  directly. It is needed: `deleteAccountIssue` (`paths_issue_account.go`)
  returns at once where there is no issue, so that an imported JWT whose
  default issue could not be created stays when its account is deleted.
  `Disturbed`, one of the two scenarios of `CutShort`, satisfies both
  hypotheses.

### The models beside them

* `Resolver`: that `Synced` is justified needs to know where replies come from,
  with any number of calls at once. `IInv` says that every call is sound (what
  it waits for is what it asked for), that requests are for servers that are
  there, that those at the inbox of a waiting call ask for what the call does
  (`InboxOwn`), and that no two calls share an inbox (`InboxAlone`). A reply
  then reaches one call at most, and only the call whose request it answers,
  however many others push the account. Each action is a step of `AccountSync`
  or leaves its variables alone. For `ConfirmedDeletion` one has to count:
  `CountsServers` says that a clean deletion has no more answers that count,
  read or waiting, than there are servers that hold nothing and have no request
  before them, so as many answers as servers means all. Assumed are
  `ResolverAssumption` (finitely many servers, at least one JWT, sites within
  them) and `NoneAssumption`.
* `CredentialLife`: `LInv` follows a deletion through its steps. Credentials
  are never from the future, those of erased keys are rejected by issue and JWT
  both, and from the revocation on first the deletion's copy, then the JWT,
  then the issue rejects all there are, so that the nkey can go. For
  `RevocationsStay`, `RevocationsCarried` says that issue and every copy that
  may be signed hold what the JWT holds; between storing new claims and signing
  them an update breaks that of the issue. Assumed is `LifeAssumption`.
* `PeriodicRounds`: `Progress` says how far a call has come: every account of
  an operator whose turn has passed is whole, or an account before it stopped
  the loop, as long as nothing has changed or failed since the call began.
* `Claims`: the invariant ties each loop to the list it works through: what has
  been appended is the beginning of what is meant, what is left the end of what
  is written, and everything that has been appended was understood. No
  hypothesis on the texts is needed, for `Meant` and `Understood` name the
  exception.

### What stays with TLC

* `TrustChain`, `CredsVerify`, `PeriodicHeals`, `NoAccountLeftUnsigned`: each
  says what a whole recursion of refreshes has achieved when it ends, and an
  invariant would have to follow it. Not proved.
* `DeletedIsGone` where nkeys or JWTs are imported, as in `CutShort`, or where
  an operator with a system account is deleted.
* `RevocationsKept` holds of the scenarios and not of arbitrary requests: an
  update of the claims replaces the revocations.
* `FilledIn`: induction over texts. The liveness properties `RequestsEnd`,
  `CallEnds`, `Converges` and `HealthyConverge`: out of the prover's reach.

## Not modelled

* Between the models: `CredentialLife` and `PeriodicRounds` are not shown to be
  abstractions of `NatsBackend`; each is translated from the code. `Resolver`
  has one account; accounts share nothing there but the connection, and an
  account created again under its name has a new key, so to the servers it is
  another account.
* Importing a seed that was stored before, and `LastSync`.
* Parameters given as JSON, the parsing of a filled-in template back from JSON,
  and braces in threes (`{{{`).
* Claims that are copied as they are (limits, subjects, mappings) and operator
  claims, which `issueOperatorJWT` converts in the same way. (It overwrites the
  `systemAccount` of the claims by the stored sys account's key.)
* Field schemas, their validation, error texts: what they reject reaches no
  handler.
* `client.go` and the client part of `backend.go` (dead), generated copies,
  `main.go`.
