----------------------------- MODULE Profiles -----------------------------
(***************************************************************************)
(* The user profile and what it refers to: saving, clearing and reading    *)
(* the profile (api/profile.py, repositories/portfolio.py), uploading and  *)
(* deleting style packs and expert method documents (api/style_packs.py,   *)
(* method_documents.py and their repositories).                            *)
(*                                                                         *)
(* A request is one transaction of PostgreSQL at READ COMMITTED, a step    *)
(* per statement or per group of statements that take no decision.  An     *)
(* UPDATE locks the rows it saw and looks at them again once they are      *)
(* free; inserting a profile locks the method document it refers to.       *)
(* created_at is the start of the transaction (func.now()).                *)
(***************************************************************************)
EXTENDS Integers, FiniteSets, Sequences, Selections

CONSTANTS
    Changes,        \* ids of the requests; a saved profile has its request's id
    Absent,         \* no reference, no answer
    StyleIds,       \* style pack ids a request may name
    BuiltinStyles,  \* ids of BUILTIN_STYLE_PACKS
    StyleAliases,   \* _LEGACY_STYLE_ALIASES, a function on some of the ids
    DefaultStyle,   \* "strategic_index"
    FirstMethods,   \* method documents uploaded before
    MethodLists,    \* lists of method documents a save may name
    PanelSize,      \* MAX_METHOD_PANEL_DOCUMENTS
    MaxFailures     \* bound: transactions that fail

ASSUME ProfilesAssumption ==
    /\ BuiltinStyles \subseteq StyleIds /\ DefaultStyle \in BuiltinStyles
    /\ Absent \notin Changes /\ Changes \cap FirstMethods = {}
    /\ \A id \in DOMAIN StyleAliases : id \notin BuiltinStyles /\ StyleAliases[id] \in BuiltinStyles
    /\ MethodLists \subseteq Seq(FirstMethods \cup Changes)
    /\ PanelSize \in Nat
    /\ MaxFailures \in Nat

VARIABLES
    profiles,       \* committed rows of user_profiles
    styles,         \* committed custom style packs
    methods,        \* committed method documents
    changing,       \* where each request is
    change,         \* what it asks for
    began,          \* the order in which the transactions began
    found,          \* rows a statement saw and has yet to lock
    locked,         \* rows of user_profiles the transaction has updated
    listed,         \* the method lists it read
    replied,        \* how it was answered: accepted (2xx), refused (4xx), failed (500)
    beside,         \* history: requests that ran at a time with it
    lastChange,     \* history: the save or clear that committed last
    failures        \* bound: transactions that failed

profilesVars == <<profiles, styles, methods, changing, change, began, found, locked,
                  listed, replied, beside, lastChange, failures>>
library == <<styles, methods>>
history == <<beside, lastChange, failures>>

Normalized(id) == IF id \in DOMAIN StyleAliases THEN StyleAliases[id] ELSE id

\* resolve_style_pack: an alias is followed first, then the built-in packs are asked.
KnownStyle(id) == Normalized(id) \in BuiltinStyles \cup styles

\* resolve_method_documents
KnownMethods(list) ==
    /\ Cardinality({list[i] : i \in DOMAIN list}) <= PanelSize
    /\ \A i \in DOMAIN list : list[i] \in methods

Without(list, m) == Pick(list, {i \in DOMAIN list : list[i] # m})
FirstOf(list) == IF list = <<>> THEN Absent ELSE Head(list)

NoRequest == [kind |-> "none"]

Active == {p \in DOMAIN profiles : profiles[p].active}

\* get_active_profile
Current ==
    IF Active = {} THEN Absent
    ELSE CHOOSE p \in Active : \A q \in Active : began[q] <= began[p]

ProfilesInit ==
    /\ profiles = <<>>
    /\ styles = {}
    /\ methods = FirstMethods
    /\ changing = [r \in Changes |-> "new"]
    /\ change = [r \in Changes |-> NoRequest]
    /\ began = [r \in Changes |-> 0]
    /\ found = [r \in Changes |-> {}]
    /\ locked = [r \in Changes |-> {}]
    /\ listed = [r \in Changes |-> <<>>]
    /\ replied = [r \in Changes |-> Absent]
    /\ beside = [r \in Changes |-> {}]
    /\ lastChange = Absent
    /\ failures = 0

Ongoing == {r \in Changes : changing[r] \notin {"new", "done"}}

Kind(r) == change[r].kind
Locks(p) == {q \in Ongoing : p \in locked[q]}

\* The first statement of a transaction; no request was in flight twice.
Begin(r, request, next) ==
    /\ changing[r] = "new"
    /\ change' = [change EXCEPT ![r] = request]
    /\ changing' = [changing EXCEPT ![r] = next]
    /\ began' = [began EXCEPT ![r] = Cardinality({q \in Changes : began[q] > 0}) + 1]
    /\ beside' = [q \in Changes |-> IF q = r THEN Ongoing
                                    ELSE IF q \in Ongoing THEN beside[q] \cup {r} ELSE beside[q]]
    /\ UNCHANGED <<profiles, library, found, locked, listed, replied, lastChange, failures>>

Turn(r, next) ==
    /\ changing' = [changing EXCEPT ![r] = next]
    /\ UNCHANGED <<change, began, beside>>

Deny(r, reply) ==
    /\ changing[r] = "new"
    /\ changing' = [changing EXCEPT ![r] = "done"]
    /\ replied' = [replied EXCEPT ![r] = reply]
    /\ UNCHANGED <<profiles, library, change, began, found, locked, listed, history>>

-----------------------------------------------------------------------------
(* save_profile and clear_profile                                          *)

SaveProfile(r, style, list) ==
    IF KnownStyle(style) /\ KnownMethods(list)
    THEN Begin(r, [kind |-> "save", style |-> Normalized(style), list |-> list], "find")
    ELSE Deny(r, "refused")

ClearProfile(r) == Begin(r, [kind |-> "clear"], "find")

\* Mutant: only the profile that is read counts as active.
FindCurrent(r) ==
    /\ changing[r] = "find"
    /\ found' = [found EXCEPT ![r] = Active \cap {Current}]
    /\ Turn(r, "deactivate")
    /\ UNCHANGED <<profiles, library, locked, listed, replied, lastChange, failures>>

FindActive(r) ==
    /\ changing[r] = "find"
    /\ found' = [found EXCEPT ![r] = Active]
    /\ Turn(r, "deactivate")
    /\ UNCHANGED <<profiles, library, locked, listed, replied, lastChange, failures>>

\* Waits for the rows; one that is no longer active is left alone by the UPDATE.
Deactivate(r) ==
    /\ changing[r] = "deactivate"
    /\ \A p \in found[r] : Locks(p) \subseteq {r}
    /\ locked' = [locked EXCEPT ![r] = found[r] \cap Active]
    /\ Turn(r, IF Kind(r) = "save" THEN "insert" ELSE "commit")
    /\ UNCHANGED <<profiles, library, found, listed, replied, lastChange, failures>>

Deleting(m) ==
    {q \in Ongoing : changing[q] = "commit" /\ change[q] = [kind |-> "delete_method", method |-> m]}

\* The foreign key to the first method waits for a deletion of that document;
\* once the document is gone the insert fails.
InsertProfile(r) ==
    LET first == FirstOf(change[r].list) IN
    /\ changing[r] = "insert" /\ Kind(r) = "save"
    /\ Deleting(first) = {}
    /\ first \in methods \cup {Absent}
    /\ Turn(r, "commit")
    /\ UNCHANGED <<profiles, library, found, locked, listed, replied, lastChange, failures>>

Rollback(r) ==
    /\ Turn(r, "done")
    /\ locked' = [locked EXCEPT ![r] = {}]
    /\ replied' = [replied EXCEPT ![r] = "failed"]
    /\ UNCHANGED <<profiles, library, found, listed, lastChange>>

InsertFails(r) ==
    LET first == FirstOf(change[r].list) IN
    /\ changing[r] = "insert" /\ Kind(r) = "save"
    /\ Deleting(first) = {}
    /\ first \notin methods \cup {Absent}
    /\ Rollback(r)
    /\ UNCHANGED failures

-----------------------------------------------------------------------------
(* Method documents                                                        *)

\* The upload has the content of a stored document (which is returned), is refused
\* by compile_method_document, or becomes a document with the request's id.  Of two
\* uploads of one content at once the second fails on the unique hash: FailChange.
UploadMethod(r, outcome) ==
    CASE outcome = "refused" -> Deny(r, "refused")
      [] outcome = "known" -> methods # {} /\ Deny(r, "accepted")
      [] outcome = "new" -> Begin(r, [kind |-> "upload_method"], "commit")

DeleteMethod(r, m) ==
    IF m \in methods
    THEN Begin(r, [kind |-> "delete_method", method |-> m], "detach")
    ELSE Deny(r, "refused")

\* The UPDATE of the pointers, then the SELECT of every profile.
DetachMethod(r) ==
    LET pointing == {p \in DOMAIN profiles : profiles[p].first = change[r].method} IN
    /\ changing[r] = "detach"
    /\ \A p \in pointing : Locks(p) \subseteq {r}
    /\ locked' = [locked EXCEPT ![r] = pointing]
    /\ listed' = [listed EXCEPT ![r] = [p \in DOMAIN profiles |-> profiles[p].list]]
    /\ Turn(r, "delete")
    /\ UNCHANGED <<profiles, library, found, replied, lastChange, failures>>

Mentions(list, m) == \E i \in DOMAIN list : list[i] = m

\* The flush writes the shortened lists, then deletes the document, which waits
\* for a profile being inserted that refers to it.
RemoveMethod(r) ==
    LET m == change[r].method
        rewritten == {p \in DOMAIN listed[r] : Mentions(listed[r][p], m)} IN
    /\ changing[r] = "delete" /\ Kind(r) = "delete_method"
    /\ \A p \in rewritten : Locks(p) \subseteq {r}
    /\ \A q \in Ongoing \ {r} :
          changing[q] = "commit" /\ Kind(q) = "save" => FirstOf(change[q].list) # m
    /\ Deleting(m) = {}
    /\ locked' = [locked EXCEPT ![r] = @ \cup rewritten]
    /\ Turn(r, "commit")
    /\ UNCHANGED <<profiles, library, found, listed, replied, lastChange, failures>>

-----------------------------------------------------------------------------
(* Style packs.  A slug is stored as it is uploaded, and looked up after    *)
(* its alias has been followed.                                            *)

\* Mutant: the slugs of the built-in packs are not reserved.
UploadAnyStyle(r, id) ==
    Begin(r, [kind |-> "upload_style", style |-> id, present |-> id \in styles], "upsert")

UploadStyle(r, id) ==
    IF id \in BuiltinStyles THEN Deny(r, "refused")
    ELSE Begin(r, [kind |-> "upload_style", style |-> id, present |-> id \in styles], "upsert")

\* Nobody else has an uncommitted change of the slug's row.
SlugFree(r) ==
    \A q \in Ongoing \ {r} :
        changing[q] \in {"reset", "commit"} /\ Kind(q) \in {"upload_style", "delete_style"}
            => change[q].style # change[r].style

\* The row is inserted or updated as the request found it: an insert that lost a
\* race meets the unique constraint, an update that lost one finds no row.
SaveStyle(r) ==
    /\ changing[r] = "upsert"
    /\ SlugFree(r)
    /\ change[r].present <=> change[r].style \in styles
    /\ Turn(r, "commit")
    /\ UNCHANGED <<profiles, library, found, locked, listed, replied, lastChange, failures>>

SaveStyleFails(r) ==
    /\ changing[r] = "upsert"
    /\ SlugFree(r)
    /\ ~ (change[r].present <=> change[r].style \in styles)
    /\ Rollback(r)
    /\ UNCHANGED failures

DeleteStyle(r, id) ==
    CASE Normalized(id) \in BuiltinStyles -> Deny(r, "refused")
      [] Normalized(id) \notin BuiltinStyles \cup styles -> Deny(r, "refused")
      [] Normalized(id) \in styles \ BuiltinStyles ->
           Begin(r, [kind |-> "delete_style", style |-> Normalized(id)], "drop")

\* The pack's row is deleted and the current profile read; its style is reset if
\* it named the pack.
DropStyle(r) ==
    /\ changing[r] = "drop"
    /\ SlugFree(r)
    /\ found' = [found EXCEPT ![r] =
            {p \in Active : p = Current /\ profiles[p].style = change[r].style}]
    /\ Turn(r, "reset")
    /\ UNCHANGED <<profiles, library, locked, listed, replied, lastChange, failures>>

ResetStyle(r) ==
    /\ changing[r] = "reset"
    /\ \A p \in found[r] : Locks(p) \subseteq {r}
    /\ locked' = [locked EXCEPT ![r] = found[r]]
    /\ Turn(r, "commit")
    /\ UNCHANGED <<profiles, library, found, listed, replied, lastChange, failures>>

-----------------------------------------------------------------------------

\* Mutant: a deleted document stays in the lists that name it.
UpdatedButForLists(r, p) ==
    CASE Kind(r) \in {"save", "clear"} -> [profiles[p] EXCEPT !.active = FALSE]
      [] Kind(r) = "delete_style" -> [profiles[p] EXCEPT !.style = DefaultStyle]
      [] Kind(r) = "delete_method" -> profiles[p]

\* What a commit makes of a row its transaction has updated.
Updated(r, p) ==
    CASE Kind(r) \in {"save", "clear"} -> [profiles[p] EXCEPT !.active = FALSE]
      [] Kind(r) = "delete_style" -> [profiles[p] EXCEPT !.style = DefaultStyle]
      [] Kind(r) = "delete_method" ->
           [profiles[p] EXCEPT !.list = Without(listed[r][p], change[r].method)]

\* The foreign key is ON DELETE SET NULL, on every row there is at the end.
Unpointed(r, row) ==
    IF Kind(r) = "delete_method" /\ row.first = change[r].method
    THEN [row EXCEPT !.first = Absent] ELSE row

NewProfile(r) ==
    [active |-> TRUE, style |-> change[r].style,
     first |-> FirstOf(change[r].list), list |-> change[r].list]

CommitChange(r) ==
    /\ changing[r] = "commit"
    /\ profiles' = [p \in DOMAIN profiles \cup (IF Kind(r) = "save" THEN {r} ELSE {}) |->
            IF p = r THEN NewProfile(r)
            ELSE Unpointed(r, IF p \in locked[r] THEN Updated(r, p) ELSE profiles[p])]
    /\ styles' = CASE Kind(r) = "upload_style" -> styles \cup {change[r].style}
                   [] Kind(r) = "delete_style" -> styles \ {change[r].style}
                   [] OTHER -> styles
    /\ methods' = CASE Kind(r) = "upload_method" -> methods \cup {r}
                    [] Kind(r) = "delete_method" -> methods \ {change[r].method}
                    [] OTHER -> methods
    /\ lastChange' = IF Kind(r) \in {"save", "clear"} THEN r ELSE lastChange
    /\ locked' = [locked EXCEPT ![r] = {}]
    /\ replied' = [replied EXCEPT ![r] = "accepted"]
    /\ Turn(r, "done")
    /\ UNCHANGED <<found, listed, failures>>

\* Any statement may fail, a deadlock of two transactions among the reasons.
FailChange(r) ==
    /\ r \in Ongoing
    /\ failures < MaxFailures
    /\ failures' = failures + 1
    /\ Rollback(r)

ProfilesNext ==
    \E r \in Changes :
        \/ \E id \in StyleIds : UploadStyle(r, id) \/ DeleteStyle(r, id)
        \/ \E id \in StyleIds, list \in MethodLists : SaveProfile(r, id, list)
        \/ ClearProfile(r)
        \/ \E outcome \in {"refused", "known", "new"} : UploadMethod(r, outcome)
        \/ \E m \in FirstMethods \cup Changes : DeleteMethod(r, m)
        \/ FindActive(r)
        \/ Deactivate(r)
        \/ InsertProfile(r)
        \/ InsertFails(r)
        \/ DetachMethod(r)
        \/ RemoveMethod(r)
        \/ SaveStyle(r)
        \/ SaveStyleFails(r)
        \/ DropStyle(r)
        \/ ResetStyle(r)
        \/ CommitChange(r)
        \/ FailChange(r)

ProfilesSpec == ProfilesInit /\ [][ProfilesNext]_profilesVars

-----------------------------------------------------------------------------

\* What get_profile answers: the saved method list is resolved again.
GetProfileStatus ==
    IF Current = Absent THEN 404
    ELSE LET row == profiles[Current]
             named == IF row.list # <<>> THEN row.list
                      ELSE IF row.first # Absent THEN <<row.first>> ELSE <<>>
         IN IF KnownMethods(named) THEN 200 ELSE 422

\* Types of the profile variables.
ProfilesTypeOK ==
    /\ DOMAIN profiles \subseteq Changes
    /\ styles \subseteq StyleIds \ BuiltinStyles
    /\ methods \subseteq FirstMethods \cup Changes
    /\ locked \in [Changes -> SUBSET Changes]
    /\ beside \in [Changes -> SUBSET Changes]
    /\ lastChange \in Changes \cup {Absent}
    /\ failures \in 0..MaxFailures

Writers == {r \in Changes : Kind(r) \in {"save", "clear"}}

\* The last save or clear that no other ran beside decides the active profile: a save is the
\* one read, a clear leaves none, whatever races left several rows active before
\* (save_active_profile, clear_active_profiles, get_active_profile).
LastProfileStands ==
    lastChange # Absent /\ beside[lastChange] \cap Writers = {} =>
        Active = IF Kind(lastChange) = "save" THEN {lastChange} ELSE {}

\* The active profile names only packs and documents that exist, so reading it succeeds,
\* unless the deletion of a document it names ran beside its save or beside another deletion,
\* which rewrote the same list from what it had read, or the deletion of its pack ran beside
\* a save or clear (delete_method_document, delete_style_pack, get_profile).
CurrentProfileResolves ==
    LET p == Current IN
    p # Absent =>
        /\ GetProfileStatus = 200
           \/ \E q \in Changes : /\ Kind(q) = "delete_method"
                               /\ Mentions(profiles[p].list, change[q].method)
                               /\ \E o \in beside[q] : o = p \/ Kind(o) = "delete_method"
        /\ KnownStyle(profiles[p].style)
           \/ \E q \in Changes : /\ Kind(q) = "delete_style"
                               /\ change[q].style = profiles[p].style
                               /\ beside[q] \cap Writers # {}

-----------------------------------------------------------------------------
(* The inductive invariant the proofs use.                                  *)

Begun == {r \in Changes : began[r] > 0}
Methods == FirstMethods \cup Changes

\* What is stored has been through its alias, and names no more documents than may be.
StoredStyles == StyleIds \ DOMAIN StyleAliases
StoredLists == {list \in Seq(Methods) : Cardinality({list[i] : i \in DOMAIN list}) <= PanelSize}
ProfileRows == [active : BOOLEAN, style : StoredStyles, first : Methods \cup {Absent},
                list : StoredLists]

\* A request is where its kind can be, and holds rows only while it changes some.
RequestInv ==
    /\ changing \in [Changes -> {"new", "find", "deactivate", "insert", "detach", "delete",
                                 "upsert", "drop", "reset", "commit", "done"}]
    /\ DOMAIN change = Changes
    /\ \A r \in Changes :
        /\ changing[r] = "new" => Kind(r) = "none"
        /\ changing[r] \in {"find", "deactivate"} => Kind(r) \in {"save", "clear"}
        /\ changing[r] = "insert" => Kind(r) = "save"
        /\ changing[r] \in {"detach", "delete"} => Kind(r) = "delete_method"
        /\ changing[r] = "upsert" => Kind(r) = "upload_style"
        /\ changing[r] \in {"drop", "reset"} => Kind(r) = "delete_style"
        /\ changing[r] = "commit" =>
              Kind(r) \in {"save", "clear", "upload_method", "delete_method", "upload_style",
                           "delete_style"}
        /\ Kind(r) = "save" => change[r].style \in StoredStyles /\ change[r].list \in StoredLists
        /\ Kind(r) = "upload_style" => change[r].style \in StyleIds \ BuiltinStyles
        /\ Kind(r) = "delete_style" => change[r].style \in StoredStyles \ BuiltinStyles
        /\ Kind(r) = "delete_method" => change[r].method \in Methods
        /\ locked[r] # {} => /\ changing[r] \in {"insert", "delete", "commit"}
                             /\ Kind(r) \notin {"upload_method", "upload_style"}

\* A saved profile is a row of a request that is done.
RowInv ==
    /\ profiles \in [DOMAIN profiles -> ProfileRows]
    /\ \A p \in DOMAIN profiles : changing[p] = "done" /\ p \in Begun
    /\ found \in [Changes -> SUBSET Changes]
    /\ DOMAIN listed = Changes
    /\ \A q \in Changes : \A p \in DOMAIN listed[q] : listed[q][p] \in StoredLists

\* No two transactions began at once, so the last of some is one.
AgeInv ==
    /\ began \in [Changes -> Nat]
    /\ IsFiniteSet(Begun)
    /\ \A r \in Begun : began[r] <= Cardinality(Begun)
    /\ \A q, r \in Begun : began[q] = began[r] => q = r
    /\ \A r \in Changes : changing[r] = "new" => r \notin Begun
    /\ Ongoing \subseteq Begun

\* Of two requests at a time each ran beside the other.
BesideInv ==
    /\ \A q, r \in Ongoing : q # r => q \in beside[r]
    /\ \A q \in Changes : \A o \in beside[q] : changing[o] # "new" /\ changing[q] # "new"

\* A save or clear that is alone has in hand all that is active.
AloneInv ==
    \A r \in Ongoing \cap Writers : beside[r] \cap Writers = {} =>
        /\ changing[r] = "deactivate" => found[r] = Active
        /\ changing[r] \in {"insert", "commit"} => locked[r] = Active

LastChangeInv == lastChange # Absent => changing[lastChange] = "done" /\ lastChange \in Writers

\* The list of p names m, which is gone, for the reason CurrentProfileResolves gives.
RacedDeletion(p, m) ==
    \E q \in Changes :
        /\ Kind(q) = "delete_method" /\ change[q].method = m
        /\ \E o \in beside[q] : o = p \/ Kind(o) = "delete_method"

\* What names a document that is gone was raced: the rows, the lists a deletion has read,
\* and the lists of a save.
ListInv ==
    /\ \A p \in DOMAIN profiles : \A m \in Methods :
          Mentions(profiles[p].list, m) => m \in methods \/ RacedDeletion(p, m)
    /\ \A r \in Ongoing : \A m \in Methods :
          Kind(r) = "save" /\ Mentions(change[r].list, m) => m \in methods \/ RacedDeletion(r, m)
    /\ \A q \in Ongoing : changing[q] \in {"delete", "commit"} /\ Kind(q) = "delete_method" =>
          \A p \in DOMAIN listed[q] : \A m \in Methods :
              Mentions(listed[q][p], m) => m \in methods \/ RacedDeletion(p, m)

\* The first method of a list is named by it, whatever deletions have read of it.
FirstInv ==
    /\ \A p \in DOMAIN profiles :
          profiles[p].first # Absent => Mentions(profiles[p].list, profiles[p].first)
    /\ \A q \in Ongoing : changing[q] \in {"delete", "commit"} /\ Kind(q) = "delete_method" =>
          \A p \in DOMAIN listed[q] :
              profiles[p].first # Absent => Mentions(listed[q][p], profiles[p].first)

\* A deletion rewrites every list that names the document, but the ones raced with it.
RewriteInv ==
    \A q \in Ongoing : changing[q] \in {"delete", "commit"} /\ Kind(q) = "delete_method" =>
        /\ DOMAIN listed[q] \subseteq DOMAIN profiles
        /\ locked[q] \subseteq DOMAIN listed[q]
        /\ \A p \in DOMAIN profiles : Mentions(profiles[p].list, change[q].method) =>
              \/ p \in DOMAIN listed[q] /\ Mentions(listed[q][p], change[q].method)
              \/ \E o \in beside[q] : o = p \/ Kind(o) = "delete_method"
        /\ changing[q] = "commit" => \A p \in DOMAIN listed[q] :
              Mentions(listed[q][p], change[q].method) => p \in locked[q]

\* The deletion of the pack ran beside a save or clear.
RacedPack(style) ==
    \E q \in Changes : /\ Kind(q) = "delete_style" /\ change[q].style = style
                       /\ beside[q] \cap Writers # {}

\* An active row whose pack is gone without a race is not the current one, and the next
\* save or clear will see it.
StyleInv ==
    /\ \A p \in Active : KnownStyle(profiles[p].style) \/ RacedPack(profiles[p].style)
          \/ /\ \E c \in Active : began[p] < began[c]
             /\ \A r \in Ongoing \cap Writers :
                   /\ changing[r] = "deactivate" => p \in found[r]
                   /\ changing[r] \in {"insert", "commit"} => p \in locked[r]
    /\ \A r \in Ongoing :
          Kind(r) = "save" => KnownStyle(change[r].style) \/ RacedPack(change[r].style)

\* A deletion of a pack that no save or clear ran beside resets the current profile.
ResetInv ==
    \A q \in Ongoing : Kind(q) = "delete_style" /\ beside[q] \cap Writers = {} =>
        \A p \in Active :
            profiles[p].style = change[q].style /\ (\A c \in Active : began[c] <= began[p]) =>
                /\ changing[q] = "reset" => p \in found[q]
                /\ changing[q] = "commit" => p \in locked[q]

ProfilesInv ==
    /\ ProfilesTypeOK /\ RequestInv /\ RowInv /\ AgeInv /\ BesideInv /\ AloneInv /\ LastChangeInv
    /\ ListInv /\ FirstInv /\ RewriteInv /\ StyleInv /\ ResetInv /\ LastProfileStands
=============================================================================
