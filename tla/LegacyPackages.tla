--------------------------- MODULE LegacyPackages ---------------------------
(***************************************************************************)
(* How the legacy server makes codes and hands them out.  A few codes are  *)
(* made at once, with a picture each, under a key that is remembered for a *)
(* day; many are made as a package, in one transaction, under a key that   *)
(* is remembered for ever.  A package is exported as a text file, or as an *)
(* archive of pictures, of which few are built at a time.                  *)
(*                                                                         *)
(* The server is one process: a handler runs without interruption up to    *)
(* its next await, and the process may be killed at any point.  A request  *)
(* r is one client's intent: it is posted, and posted again, with its key  *)
(* and its body.  A code of a package is a number of 1..Quantity, a code   *)
(* made at once is counted.                                                *)
(***************************************************************************)
EXTENDS Naturals, FiniteSets

CONSTANTS
  Requests, Packages, Archives,
  Keys, keyOf,       \* the Idempotency-Key of a request
  bodyOf,            \* what it asks for, by its hash
  Quantity,          \* the codes that one request asks for
  MaxArchives,       \* IMAGE_ARCHIVE_MAX_CONCURRENT
  Nothing

ASSUME PackagesAssumption ==
  /\ keyOf \in [Requests -> Keys] /\ Nothing \notin Packages \cup Keys \cup Nat
  /\ Packages \cap {"none", "wait", "conflict", "ok", "error"} = {}
  /\ Quantity \in Nat \ {0} /\ MaxArchives \in Nat \ {0}
  /\ IsFiniteSet(Archives)

VARIABLES
  process,       \* "up" or "down"
  rows,         \* agent_idempotency, by key
  making,       \* the handlers that make codes at once: what each has made, or Nothing
  made,         \* the codes made under a key since its row was inserted
  answers,      \* what a request was answered last
  packages,     \* code_packages and code_package_idempotency
  codesOf,        \* the codes of a package that exist
  creating,     \* the package whose handler is past its reservation, or Nothing
  exports,      \* the files of a package that were delivered
  archives,     \* the handlers that build archives
  imageArchiveJobs

atOnceVars == <<rows, making, made>>
packageVars == <<packages, creating>>
archiveVars == <<archives, imageArchiveJobs>>
packagesVars == <<process, atOnceVars, answers, packageVars, codesOf, exports, archiveVars>>

Bodies == {bodyOf[r] : r \in Requests}
NoRow == [hash |-> Nothing, answer |-> "none"]
NoPackage == [status |-> "none", key |-> Nothing, hash |-> Nothing]
NoArchive == [doing |-> "nothing", package |-> Nothing, codes |-> {}, released |-> FALSE]
AllCodes == 1..Quantity

PackagesTypeOK ==
  /\ process \in {"up", "down"}
  /\ rows \in [Keys -> [hash : Bodies \cup {Nothing}, answer : {"none", "pending", "ok", "error"}]]
  /\ making \in [Keys -> 0..Quantity \cup {Nothing}] /\ made \in [Keys -> Nat]
  /\ answers \in [Requests -> {"none", "wait", "conflict", "ok", "error"} \cup Packages]
  /\ packages \in [Packages -> [status : {"none", "generating", "ready", "failed"},
                                key : Keys \cup {Nothing}, hash : Bodies \cup {Nothing}]]
  /\ codesOf \in [Packages -> SUBSET AllCodes] /\ creating \in Packages \cup {Nothing}
  /\ exports \in [Packages -> SUBSET SUBSET AllCodes]
  /\ archives \in [Archives -> [doing : {"nothing", "building"}, package : Packages \cup {Nothing},
                                codes : SUBSET AllCodes, released : BOOLEAN]]
  /\ imageArchiveJobs \in Nat

PackagesInit ==
  /\ process = "up"
  /\ rows = [k \in Keys |-> NoRow]
  /\ making = [k \in Keys |-> Nothing] /\ made = [k \in Keys |-> 0]
  /\ answers = [r \in Requests |-> "none"]
  /\ packages = [p \in Packages |-> NoPackage]
  /\ codesOf = [p \in Packages |-> {}] /\ creating = Nothing
  /\ exports = [p \in Packages |-> {}]
  /\ archives = [a \in Archives |-> NoArchive] /\ imageArchiveJobs = 0

\* No handler is between two statements that nothing interrupts.
Idle == process = "up" /\ creating = Nothing

-----------------------------------------------------------------------------
(* Codes made at once *)

\* requireAgentIdempotency and requireBrowserIdempotency, for a key without a row: a
\* request that is refused by the handler is answered, and remembered, as well.
Ask(r) ==
  LET k == keyOf[r] IN
  /\ Idle /\ rows[k] = NoRow
  /\ \/ /\ rows' = [rows EXCEPT ![k] = [hash |-> bodyOf[r], answer |-> "pending"]]
        /\ making' = [making EXCEPT ![k] = 0]
        /\ UNCHANGED answers
     \/ /\ rows' = [rows EXCEPT ![k] = [hash |-> bodyOf[r], answer |-> "error"]]
        /\ answers' = [answers EXCEPT ![r] = "error"]
        /\ UNCHANGED making
  /\ UNCHANGED <<process, made, packageVars, codesOf, exports, archiveVars>>

\* Mutant: another body under the same key is answered as well.
AskAgainAnything(r) ==
  LET row == rows[keyOf[r]] IN
  /\ Idle /\ row # NoRow
  /\ answers' = [answers EXCEPT ![r] = IF row.answer = "pending" THEN "wait" ELSE row.answer]
  /\ UNCHANGED <<process, atOnceVars, packageVars, codesOf, exports, archiveVars>>

\* The key is known: its answer again, or none yet.
AskAgain(r) ==
  LET row == rows[keyOf[r]] IN
  /\ Idle /\ row # NoRow
  /\ answers' = [answers EXCEPT ![r] =
       IF row.hash # bodyOf[r] THEN "conflict"
       ELSE IF row.answer = "pending" THEN "wait" ELSE row.answer]
  /\ UNCHANGED <<process, atOnceVars, packageVars, codesOf, exports, archiveVars>>

\* A code is inserted, then its picture is awaited.
MakeCode(k) ==
  /\ Idle /\ making[k] \in 0..(Quantity - 1)
  /\ making' = [making EXCEPT ![k] = @ + 1]
  /\ made' = [made EXCEPT ![k] = @ + 1]
  /\ UNCHANGED <<process, rows, answers, packageVars, codesOf, exports, archiveVars>>

\* The picture cannot be written, and the error is the answer; or all are made.
EndMaking(k, answer) ==
  /\ Idle
  /\ \/ answer = "error" /\ making[k] \in 1..Quantity
     \/ answer = "ok" /\ making[k] = Quantity
  /\ making' = [making EXCEPT ![k] = Nothing]
  /\ rows' = [rows EXCEPT ![k].answer = answer]
  /\ UNCHANGED <<process, made, answers, packageVars, codesOf, exports, archiveVars>>

\* After a day, and the next request under any key; no handler runs that long.
ForgetKey(k) ==
  /\ Idle /\ rows[k] # NoRow /\ making[k] = Nothing
  /\ rows' = [rows EXCEPT ![k] = NoRow] /\ made' = [made EXCEPT ![k] = 0]
  /\ answers' = [r \in Requests |-> IF keyOf[r] = k /\ answers[r] \notin Packages
                                      THEN "none" ELSE answers[r]]
  /\ UNCHANGED <<process, making, packageVars, codesOf, exports, archiveVars>>

-----------------------------------------------------------------------------
(* Packages *)

PackageOf(k) == {p \in Packages : packages[p].key = k}

\* Mutant: a key whose package failed makes another one.
ReserveAfterFailure(r, p) ==
  /\ Idle /\ packages[p] = NoPackage
  /\ \A q \in PackageOf(keyOf[r]) : packages[q].status = "failed"
  /\ packages' = [packages EXCEPT ![p] =
       [status |-> "generating", key |-> keyOf[r], hash |-> bodyOf[r]]]
  /\ creating' = p
  /\ UNCHANGED <<process, atOnceVars, answers, codesOf, exports, archiveVars>>

\* POST /api/code-packages up to the end of reserveCodePackage.
Reserve(r, p) ==
  /\ Idle /\ PackageOf(keyOf[r]) = {} /\ packages[p] = NoPackage
  /\ packages' = [packages EXCEPT ![p] =
       [status |-> "generating", key |-> keyOf[r], hash |-> bodyOf[r]]]
  /\ creating' = p
  /\ UNCHANGED <<process, atOnceVars, answers, codesOf, exports, archiveVars>>

\* createPackageCodes, in one transaction, and its answer; or its failure.
CreatePackageCodes(answered) ==
  /\ process = "up" /\ creating # Nothing
  /\ \/ /\ packages' = [packages EXCEPT ![creating].status = "ready"]
        /\ codesOf' = [codesOf EXCEPT ![creating] = AllCodes]
        /\ answers' = [r \in Requests |-> IF r \in answered THEN creating ELSE answers[r]]
     \/ /\ packages' = [packages EXCEPT ![creating].status = "failed"]
        /\ UNCHANGED <<codesOf, answers>>
  /\ creating' = Nothing
  /\ UNCHANGED <<process, atOnceVars, exports, archiveVars>>

\* The same request finds its package, as long as it is the same request.
ReserveAgain(r, p) ==
  /\ Idle /\ packages[p].key = keyOf[r]
  /\ answers' = [answers EXCEPT ![r] =
       IF packages[p].hash # bodyOf[r] THEN "conflict"
       ELSE IF packages[p].status = "generating" THEN "wait"
       ELSE IF packages[p].status = "failed" THEN "error" ELSE p]
  /\ UNCHANGED <<process, atOnceVars, packageVars, codesOf, exports, archiveVars>>

\* DELETE /api/codes and its batch form: a code without history.
DeleteCode(p, c) ==
  /\ Idle /\ c \in codesOf[p]
  /\ codesOf' = [codesOf EXCEPT ![p] = @ \ {c}]
  /\ UNCHANGED <<process, atOnceVars, answers, packageVars, exports, archiveVars>>

-----------------------------------------------------------------------------
(* Exports *)

\* Mutant: the codes are not counted.
ExportableUncounted(p) == packages[p].status = "ready"

Exportable(p) == packages[p].status = "ready" /\ Cardinality(codesOf[p]) = Quantity

\* A text file is written at once.
Export(p) ==
  /\ Idle /\ Exportable(p)
  /\ exports' = [exports EXCEPT ![p] = @ \cup {codesOf[p]}]
  /\ UNCHANGED <<process, atOnceVars, answers, packageVars, codesOf, archiveVars>>

\* reserveImageArchive: the codes are read, then their pictures are drawn one by one.
StartArchive(a, p) ==
  /\ Idle /\ archives[a] = NoArchive
  /\ Exportable(p) /\ imageArchiveJobs < MaxArchives
  /\ archives' = [archives EXCEPT ![a] =
       [doing |-> "building", package |-> p, codes |-> codesOf[p], released |-> FALSE]]
  /\ imageArchiveJobs' = imageArchiveJobs + 1
  /\ UNCHANGED <<process, atOnceVars, answers, packageVars, codesOf, exports>>

\* Mutant: the flag is not looked at.
ReleaseArchiveAgain(a) ==
  imageArchiveJobs' = IF imageArchiveJobs = 0 THEN 0 ELSE imageArchiveJobs - 1

\* Once for each archive, whichever of its events comes first.
ReleaseArchive(a) ==
  imageArchiveJobs' = IF archives[a].released THEN imageArchiveJobs ELSE imageArchiveJobs - 1

\* It is sent, or its pictures fail.
EndArchive(a, sent) ==
  /\ Idle /\ archives[a].doing = "building"
  /\ exports' = IF sent /\ ~archives[a].released
                  THEN [exports EXCEPT ![archives[a].package] = @ \cup {archives[a].codes}]
                  ELSE exports
  /\ ReleaseArchive(a)
  /\ archives' = [archives EXCEPT ![a] = NoArchive]
  /\ UNCHANGED <<process, atOnceVars, answers, packageVars, codesOf>>

\* The client goes: the response closes, and the handler draws on.
CloseArchive(a) ==
  /\ Idle /\ archives[a].doing = "building" /\ ~archives[a].released
  /\ ReleaseArchive(a)
  /\ archives' = [archives EXCEPT ![a].released = TRUE]
  /\ UNCHANGED <<process, atOnceVars, answers, packageVars, codesOf, exports>>

-----------------------------------------------------------------------------
(* The process *)

Crash ==
  /\ process = "up" /\ process' = "down"
  /\ making' = [k \in Keys |-> Nothing] /\ creating' = Nothing
  /\ archives' = [a \in Archives |-> NoArchive] /\ imageArchiveJobs' = 0
  /\ UNCHANGED <<rows, made, answers, packages, codesOf, exports>>

\* Mutant: they are left as they are.
RestartOnly ==
  /\ process = "down" /\ process' = "up"
  /\ UNCHANGED <<atOnceVars, answers, packageVars, codesOf, exports, archiveVars>>

\* initDatabase fails the packages that were being generated.
Restart ==
  /\ process = "down" /\ process' = "up"
  /\ packages' = [p \in Packages |-> IF packages[p].status = "generating"
                    THEN [packages[p] EXCEPT !.status = "failed"] ELSE packages[p]]
  /\ UNCHANGED <<atOnceVars, answers, creating, codesOf, exports, archiveVars>>

-----------------------------------------------------------------------------

Create == \E answered \in SUBSET Requests :
  /\ \A r \in answered : creating # Nothing /\ keyOf[r] = packages[creating].key
                                         /\ bodyOf[r] = packages[creating].hash
  /\ Cardinality(answered) <= 1
  /\ CreatePackageCodes(answered)

PackagesNext ==
  \/ \E r \in Requests : \/ Ask(r) \/ AskAgain(r)
                         \/ \E p \in Packages : Reserve(r, p) \/ ReserveAgain(r, p)
  \/ \E k \in Keys : \/ MakeCode(k) \/ ForgetKey(k)
                     \/ \E answer \in {"ok", "error"} : EndMaking(k, answer)
  \/ Create
  \/ \E p \in Packages : \/ Export(p)
                         \/ \E c \in AllCodes : DeleteCode(p, c)
                         \/ \E a \in Archives : StartArchive(a, p)
  \/ \E a \in Archives : CloseArchive(a) \/ \E sent \in BOOLEAN : EndArchive(a, sent)
  \/ Crash \/ Restart

PackagesSpec == PackagesInit /\ [][PackagesNext]_packagesVars

-----------------------------------------------------------------------------
(* Properties *)

\* However often a request is posted again, over lost answers and crashes: its key makes
\* one batch of codes while it is remembered, and one package for ever; a package that is
\* being generated has its handler, or will fail at the next start, so that its client gets
\* an answer; and an answer is the answer to its own body.
OneBatchPerKey ==
  /\ PackagesTypeOK
  /\ \A k \in Keys : /\ made[k] <= Quantity
                     /\ rows[k].answer = "ok" => made[k] = Quantity
                     /\ Cardinality(PackageOf(k)) <= 1
  /\ \A p \in Packages :
       packages[p].status = "generating" => creating = p \/ process = "down"
  /\ \A r \in Requests : /\ answers[r] = "ok" => rows[keyOf[r]].hash = bodyOf[r]
                         /\ answers[r] \in Packages =>
                              packages[answers[r]].hash = bodyOf[r]

\* Whatever is deleted meanwhile, every file of a package has all its codes, so that no
\* two of them differ.
ExportsAreWhole == \A p \in Packages : exports[p] \subseteq {AllCodes}

\* The counter of archives tells those that a client still waits for, over failures and
\* clients that go: no slot is lost, and none is given back twice.
SlotsMatch ==
  /\ imageArchiveJobs <= MaxArchives
  /\ imageArchiveJobs = Cardinality({a \in Archives :
       archives[a].doing = "building" /\ ~archives[a].released})

-----------------------------------------------------------------------------
(* What a comment says and the code does not do *)

\* The number of archives being built is limited.
ArchivesBounded ==
  Cardinality({a \in Archives : archives[a].doing = "building"}) <= MaxArchives
=============================================================================
