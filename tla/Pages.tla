-------------------------------- MODULE Pages -------------------------------
(* The links to what the service shows on the web: one artifact for each   *)
(* turn, for its telemetry and for each CI run, made by whoever asks       *)
(* first, and the pages a chat publishes.                                  *)
(* database/repositories/artifact.py, artifacts.py, the routes that read   *)
(* them and api/routes/cli/pages.py. A request that finds no artifact of   *)
(* its owner adds one; the unique indexes on the slug and on the owner     *)
(* decide between requests that do so at once.                             *)
EXTENDS Naturals, FiniteSets

CONSTANTS
    Requests,    \* the requests, each made once
    Owners,      \* turns and CI runs
    Slugs,       \* the slugs generate_slug may draw
    Attempts,    \* ATTEMPTS
    MaxDeleted   \* bound of the model: artifacts deleted

VARIABLES
    rows,     \* the table
    req,      \* the requests
    deleted   \* artifacts deleted so far, as slug and owner

vars == <<rows, req, deleted>>

\* The kinds with one artifact per owner, and the pages.
Single == {"turn", "telemetry", "ci"}
Kinds == Single \cup {"markdown"}
NoSlug == "none"
Row == [slug : Slugs, kind : Kinds, owner : Owners, version : 0..1]

TypeOK ==
    /\ rows \subseteq Row
    /\ req \in [Requests -> [at : {"new", "add", "reread", "change", "answered", "refused", "failed"},
                             kind : Kinds, owner : Owners, view : BOOLEAN,
                             left : 0..Attempts, slug : Slugs \cup {NoSlug}]]
    /\ deleted \subseteq (Slugs \X Kinds \X Owners)

\* What can be asked: the link of an owner, to publish a page, to view a turn's
\* page, which asks for the link of its telemetry, or to change a page.
Init ==
    /\ rows = {}
    /\ req \in [Requests -> [at : {"new"}, kind : Kinds, owner : Owners, view : BOOLEAN,
                             left : {Attempts}, slug : {NoSlug}]]
    /\ \A r \in Requests : req[r].view => req[r].kind \in {"telemetry", "markdown"}
    /\ deleted = {}

Of(kind, owner) == {row \in rows : row.kind = kind /\ row.owner = owner}

Answer(r, at, slug) == req' = [req EXCEPT ![r].at = at, ![r].slug = slug]

\* What _add returns. A rollback expires every object of the session, the
\* artifact of a viewed page with them: that view fails when it reads on.
Return(r, at, slug, rolledBack) ==
    IF req[r].view /\ rolledBack THEN Answer(r, "failed", NoSlug) ELSE Answer(r, at, slug)

\* of_turn, telemetry_of_turn and of_ci_run, before anything is added.
Ask(r) ==
    /\ req[r].at = "new" /\ req[r].kind \in Single
    /\ req[r].view => Of("turn", req[r].owner) # {}
    /\ IF Of(req[r].kind, req[r].owner) # {}
       THEN \E row \in Of(req[r].kind, req[r].owner) : Answer(r, "answered", row.slug)
       ELSE Answer(r, "add", NoSlug)
    /\ UNCHANGED <<rows, deleted>>

\* publish: a page is always added.
Publish(r) ==
    /\ req[r].at = "new" /\ req[r].kind = "markdown" /\ ~req[r].view
    /\ Answer(r, "add", NoSlug)
    /\ UNCHANGED <<rows, deleted>>

\* What the unique indexes allow.
Allowed(r, slug) ==
    /\ \A row \in rows : row.slug # slug
    /\ req[r].kind \in Single => Of(req[r].kind, req[r].owner) = {}

\* _add: an artifact under a drawn slug is committed, or refused by an index.
Add(r) ==
    /\ req[r].at = "add"
    /\ \E slug \in Slugs :
           IF Allowed(r, slug)
           THEN /\ rows' = rows \cup {[slug |-> slug, kind |-> req[r].kind,
                                       owner |-> req[r].owner, version |-> 0]}
                /\ Return(r, "answered", slug, req[r].left < Attempts)
           ELSE UNCHANGED rows /\ Answer(r, "reread", NoSlug)
    /\ UNCHANGED deleted

\* After the rollback: the artifact another request made, or another attempt.
Reread(r) ==
    /\ req[r].at = "reread"
    /\ IF req[r].kind \in Single /\ Of(req[r].kind, req[r].owner) # {}
       THEN \E row \in Of(req[r].kind, req[r].owner) : Return(r, "answered", row.slug, TRUE)
       ELSE IF req[r].left > 1
            THEN req' = [req EXCEPT ![r].at = "add", ![r].left = @ - 1]
            ELSE Return(r, "refused", NoSlug, TRUE)
    /\ UNCHANGED <<rows, deleted>>

\* replace: the page is read and then changed, each by its own statement.
ReadPage(r) ==
    /\ req[r].at = "new" /\ req[r].kind = "markdown" /\ req[r].view
    /\ \E row \in Of("markdown", req[r].owner) : Answer(r, "change", row.slug)
    /\ UNCHANGED <<rows, deleted>>

\* A page that was deleted in between is not changed: the request fails.
ChangePage(r) ==
    /\ req[r].at = "change"
    /\ LET row == {x \in rows : x.slug = req[r].slug}
       IN  IF row = {}
           THEN Answer(r, "failed", NoSlug) /\ UNCHANGED rows
           ELSE /\ rows' = (rows \ row) \cup {[x EXCEPT !.version = 1] : x \in row}
                /\ Answer(r, "answered", req[r].slug)
    /\ UNCHANGED deleted

\* delete_artifact, drop and /wipe
Delete(row) ==
    /\ row \in rows /\ Cardinality(deleted) < MaxDeleted
    /\ rows' = rows \ {row}
    /\ deleted' = deleted \cup {<<row.slug, row.kind, row.owner>>}
    /\ UNCHANGED req

Next ==
    \/ \E r \in Requests :
        Ask(r) \/ Publish(r) \/ Add(r) \/ Reread(r) \/ ReadPage(r) \/ ChangePage(r)
    \/ \E row \in rows : Delete(row)

Spec == Init /\ [][Next]_vars

-----------------------------------------------------------------------------
(* Properties.                                                             *)

Answered(r) == req[r].at = "answered"

\* for_turn, for_telemetry and for_ci_run: whoever asks for the link of an
\* owner, at once or later, is given the same one, and it leads there; only a
\* deletion ends it.
OneLink ==
    /\ \A r \in Requests : Answered(r) =>
        \/ \E row \in rows : row.slug = req[r].slug /\ row.kind = req[r].kind /\ row.owner = req[r].owner
        \/ <<req[r].slug, req[r].kind, req[r].owner>> \in deleted
    /\ \A q, r \in Requests :
        /\ Answered(q) /\ Answered(r) /\ req[q].kind = req[r].kind /\ req[q].owner = req[r].owner
        /\ req[q].kind \in Single
        => \/ req[q].slug = req[r].slug
           \/ \E s \in {q, r} : <<req[s].slug, req[s].kind, req[s].owner>> \in deleted
=============================================================================
