--------------------------- MODULE RobinhoodSidecar ---------------------------
(***************************************************************************)
(* The read-only sidecar (integrations/robinhood/sidecar.py): the cached   *)
(* capability audit, the approved manifest that gates every read, the one  *)
(* account that may be read, and the calls of the provider's tools.        *)
(* Handlers run in threads: the audit is shared without a lock.            *)
(***************************************************************************)
EXTENDS Integers, FiniteSets

CONSTANTS
    Reads,          \* ids of the requests
    NoAudit,        \* the sidecar has fetched no tools yet
    Approved,       \* the manifest the operator approved, {} when none
    Manifests,      \* manifests the provider may offer
    Directory,      \* manifests with exactly the reviewed tool names
    Accounts,       \* accounts the provider may list as active default non-agentic ones
    HistoricalsOn,  \* ARGUS_ROBINHOOD_ENABLE_HISTORICALS
    MaxChanges      \* bound: changes of the offered manifest

ASSUME SidecarAssumption ==
    /\ Approved \subseteq Manifests /\ Cardinality(Approved) <= 1 /\ Directory \subseteq Manifests
    /\ NoAudit \notin Manifests
    /\ HistoricalsOn \in BOOLEAN /\ MaxChanges \in Nat

VARIABLES
    offered,        \* the manifest the provider offers
    seen,           \* the manifest of the cached audit
    task,           \* what each request asks and how far it is
    fetched,        \* the manifest a request has listed and not yet cached
    chosen,         \* accounts a request found like the one that may be read
    answered,       \* HTTP status of each request
    called,         \* tool calls made: request, tool, accounts found or read
    drifted,        \* requests begun since the cached audit ceased to be the approved one
    changes         \* bound: changes made

sidecarVars == <<offered, seen, task, fetched, chosen, answered, called, drifted, changes>>

ToolOf == [positions |-> "get_equity_positions", quotes |-> "get_equity_quotes",
           historicals |-> "get_equity_historicals"]
ReadTools == {"get_accounts"} \cup {ToolOf[kind] : kind \in DOMAIN ToolOf}
Idle == [kind |-> "none", step |-> "new"]

SidecarInit ==
    /\ offered \in Manifests
    /\ seen = NoAudit
    /\ task = [r \in Reads |-> Idle]
    /\ fetched = [r \in Reads |-> NoAudit]
    /\ chosen = [r \in Reads |-> {}]
    /\ answered = [r \in Reads |-> 0]
    /\ called = {}
    /\ drifted = {}
    /\ changes = 0

Reply(r, code) ==
    /\ answered' = [answered EXCEPT ![r] = code]
    /\ task' = [task EXCEPT ![r].step = "done"]
GoTo(r, step) == task' = [task EXCEPT ![r].step = step]

\* capability_audit lists the tools when none are cached or a refresh is asked for.
\* read_historicals answers 409 before anything when it is off.
Ask(r) ==
    /\ task[r] = Idle
    /\ drifted' = IF seen \in Approved \cup {NoAudit} THEN drifted ELSE drifted \cup {r}
    /\ \E kind \in DOMAIN ToolOf \cup {"refresh", "health"} :
          IF kind = "historicals" /\ ~HistoricalsOn
          THEN /\ answered' = [answered EXCEPT ![r] = 409]
               /\ task' = [task EXCEPT ![r] = [kind |-> kind, step |-> "done"]]
          ELSE /\ task' = [task EXCEPT ![r] =
                     [kind |-> kind,
                      step |-> IF seen = NoAudit \/ kind = "refresh" THEN "list" ELSE "check"]]
               /\ UNCHANGED answered
    /\ UNCHANGED <<offered, seen, fetched, chosen, called, changes>>

\* The transport's list_tools; a failure is a 500.
ListTools(r) ==
    /\ task[r].step = "list"
    /\ \/ /\ fetched' = [fetched EXCEPT ![r] = offered]
          /\ GoTo(r, "cache")
          /\ UNCHANGED answered
       \/ Reply(r, 500) /\ UNCHANGED fetched
    /\ UNCHANGED <<offered, seen, chosen, called, drifted, changes>>

CacheAudit(r) ==
    /\ task[r].step = "cache"
    /\ seen' = fetched[r]
    /\ drifted' = IF fetched[r] \in Approved THEN {} ELSE drifted
    /\ fetched' = [fetched EXCEPT ![r] = NoAudit]
    /\ GoTo(r, "check")
    /\ UNCHANGED <<offered, answered, chosen, called, changes>>

\* Mutant: the reviewed names are enough, whatever their schemas.
DirectoryReviewed == seen \in Directory
ManifestApproved == seen \in Directory \cap Approved

\* _require_approved: the directory as reviewed, then the manifest as approved.  A request
\* checks the audit it meets, which another request may have cached since; a read of the
\* positions asks twice, once for each of its tools.
RequireApproved(r) ==
    /\ task[r].step \in {"check", "again"}
    /\ IF task[r].kind \in {"refresh", "health"} THEN Reply(r, 200)
       ELSE IF ~ManifestApproved THEN Reply(r, 409)
       ELSE /\ GoTo(r, IF task[r].kind # "positions" THEN "read"
                       ELSE IF task[r].step = "check" THEN "again" ELSE "accounts")
            /\ UNCHANGED answered
    /\ UNCHANGED <<offered, seen, fetched, chosen, called, drifted, changes>>

Call(r, tool, accounts) ==
    called' = called \cup {[by |-> r, tool |-> tool, accounts |-> accounts]}

\* get_accounts, then exactly one active default non-agentic account, or none is guessed.
SelectAccount(r) ==
    /\ task[r].step = "accounts"
    /\ \E found \in SUBSET Accounts :
          /\ chosen' = [chosen EXCEPT ![r] = found]
          /\ Call(r, "get_accounts", found)
          /\ IF Cardinality(found) = 1 THEN GoTo(r, "read") /\ UNCHANGED answered
             ELSE Reply(r, 409)
    /\ UNCHANGED <<offered, seen, fetched, drifted, changes>>

Read(r) ==
    /\ task[r].step = "read"
    /\ Call(r, ToolOf[task[r].kind], chosen[r])
    /\ Reply(r, 200)
    /\ UNCHANGED <<offered, seen, fetched, chosen, drifted, changes>>

\* A tool of the provider, called, fails.
ToolFails(r) ==
    /\ task[r].step \in {"accounts", "read"}
    /\ Call(r, IF task[r].step = "accounts" THEN "get_accounts" ELSE ToolOf[task[r].kind],
            chosen[r])
    /\ Reply(r, 500)
    /\ UNCHANGED <<offered, seen, fetched, chosen, drifted, changes>>

\* The provider changes its tools.
ToolsChange ==
    /\ changes < MaxChanges
    /\ offered' \in Manifests \ {offered}
    /\ changes' = changes + 1
    /\ UNCHANGED <<seen, task, fetched, answered, chosen, called, drifted>>

SidecarNext ==
    \/ \E r \in Reads :
          Ask(r) \/ ListTools(r) \/ CacheAudit(r) \/ RequireApproved(r) \/ SelectAccount(r)
          \/ Read(r) \/ ToolFails(r)
    \/ ToolsChange

SidecarSpec == SidecarInit /\ [][SidecarNext]_sidecarVars

-----------------------------------------------------------------------------

Tasks == [kind : DOMAIN ToolOf \cup {"none", "refresh", "health"},
          step : {"new", "list", "cache", "check", "again", "accounts", "read", "done"}]

\* Types of the sidecar's variables.
SidecarTypeOK ==
    /\ offered \in Manifests
    /\ seen \in Manifests \cup {NoAudit}
    /\ task \in [Reads -> Tasks]
    /\ fetched \in [Reads -> Manifests \cup {NoAudit}]
    /\ answered \in [Reads -> {0, 200, 409, 500}]
    /\ chosen \in [Reads -> SUBSET Accounts]
    /\ called \subseteq [by : Reads, tool : ReadTools, accounts : SUBSET Accounts]
    /\ drifted \subseteq Reads
    /\ changes \in 0..MaxChanges

\* Once an audit has shown anything but the approved directory and manifest, no later request
\* reaches a tool of the provider until an audit shows the approved manifest again; without an
\* approved manifest nothing is read at all ("reads are fail-closed").
DriftStopsReads ==
    /\ \A call \in called : call.by \notin drifted
    /\ (Approved \cap Directory = {}) => called = {}

\* Holdings are only ever read of an account that get_accounts, called by the same request
\* before, showed to be the only one of its kind: it is never guessed among several.
OnlyTheSelectedAccount ==
    \A call \in called : call.tool = "get_equity_positions" =>
        /\ Cardinality(call.accounts) = 1
        /\ \E earlier \in called :
              earlier.by = call.by /\ earlier.tool = "get_accounts"
                                  /\ earlier.accounts = call.accounts

\* What the user approved is all that is read: the reviewed tools, of the one account.
ReadsAreApproved == DriftStopsReads /\ OnlyTheSelectedAccount
=============================================================================
