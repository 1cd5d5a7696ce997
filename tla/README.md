# Check API in TLA+

TLA+ models of the Check API, the Rails application of this repository (`src/`): the modules, the TLC configurations that
check them on small instances, and proofs that TLAPS checks for every instance. `PROJECT.json` lists the components, the
runs with their mutants, the lines each definition is translated from (`map`), the findings, the hazards and the
theorems.

## 1. The system

Check is a tool for verifying media in teams. A client sends GraphQL queries and mutations; a controller fills the
current user and team, a mutation loads, assigns and saves an ActiveRecord object, and its callbacks do the rest: write
versions, queue a job for the search index, put together a Slack message, call Pender, the service that parses URLs.

| Component | State | Operations | Interacts with | Model |
|---|---|---|---|---|
| Status of a project media (`annotations/status.rb`, `annotation_base.rb`) | a row of `annotations`, its PaperTrail versions | create with the media, update, destroy (which reverts), destroyVersion | team settings, permissions, Slack, search index | `StatusHistory`, `UndoStack`, `StatusUndo` |
| Search index (`annotation_base.rb`, `elastic_search_worker.rb`, `search/*`) | documents of Elasticsearch, queue of Sidekiq | store on create, job per save, refresh | every annotation | `SearchIndex` |
| Team members (`team_user.rb`, `ability.rb`, `user.rb`) | rows of `team_users`, cached roles | create, update, destroy, visit | permissions of every request | `Membership` |
| Media in projects (`project_media.rb`, `link.rb`, `account.rb`, `pender_data.rb`) | rows of `medias`, `accounts`, `sources`, `project_medias` | create by URL, by id, from a quote or a file; move; destroy | Pender, statuses, search index | `MediaCreation` (URL and id), `Library` |
| GraphQL operations (`graphql_crud_operations.rb`) | none of its own | load, assign, save; find, destroy | everything above | in each module |
| Team settings (`team.rb`, `checkdesk_settings.rb`) | list of statuses, Slack | update | statuses read them inside transactions | in `StatusHistory` |
| Permissions (`ability.rb`, `checkdesk_permissions.rb`) | none; reads roles | asked by hooks before save and destroy | cached roles, cached annotated objects | `Permissions`; on members and statuses in `Membership`, `StatusHistory` |
| Other annotations (comment, tag, flag, embed) | rows of `annotations`, the annotated media cached for 30 seconds | create, update, destroy; override of title and description | permissions, moves of the media, search index | `Annotations`; jobs in `SearchIndex` |
| Request context (`User.current`, `Team.current`, `Ability`, `api/v1/*_controller.rb`) | thread-local user and team, kept from one request to the next; `users.current_team_id` | filters, `set_current_team`, queries | permissions | `RequestContext` |
| Registration and sessions (`registrations_controller.rb`, `sessions_controller.rb`, `user.rb`) | rows of `users` | sign up, confirm, sign in by password or provider, sign out, update, delete | request context, Devise | `RequestContext` |
| Notifications and mails | Slack, Pusher, mails | after save | jobs | effect on the transaction only |
| Search queries (`check_search.rb`) | none | one query | search index | planned |
| Scripts of `public/` | none | served as they are | | not modelled |
| Projects, contacts, GraphQL types, uploaders, rake tasks | plain records or none | one save, reads | | not modelled |

What is hard: nothing locks a row across the steps of a request; `Status#destroy` spans several transactions; workers run
jobs in any order and write whole documents read through a lagging search; roles are cached for 30 seconds; duplicates are
looked for before they are inserted, with an index behind some of the look-ups and none behind others; callbacks may raise
in the middle of a transaction. `PROJECT.json` lists each such hazard at its line, with the properties that cover it.

What makes each part correct, in one line: a destroy of a status takes back one change; the index ends up with what the
database holds; a member has one row and no permission older than the cache allows; a link has one row, an author one
account, and a project a media once; a media has a tag once, and a title that was overridden stays so; annotations are
changed by the team of their media, or of the one they are taken to; a request acts as its own user in its own team. Still to be stated: a mail is sent
once and says what happened.

## 2. Modules

The unit of a step is what the database makes atomic. PostgreSQL runs a transaction at READ COMMITTED, where each query
sees what is committed when it runs; so where a property is about what a transaction has read before it writes
(`StatusHistory`, `MediaCreation`), its queries are steps of their own and the COMMIT is one. Elsewhere a step is a
transaction, a query, or a request to Elasticsearch. Requests are records held per thread, with what they have read; `pc` says what they do next. Texts, names
and times are left out; statuses, URLs, users and values are members of constant sets.

**StatusHistory.** `row`, `versions` and `nextId` are the tables; `listed` and `slack` the settings of the team. `BeginUpdate`
loads the row. The `save!` is four steps, which the field `step` of the request counts: `StorePrevious` reads the status
that is replaced, `Validate` a list of statuses - the one in force, or one from earlier in the request, as the query cache
may have it (`seen`) -, `Announce` is the permission, the UPDATE, which waits for and takes the lock of the row, and the
labels of the Slack message, and `SaveUpdate` the COMMIT, which shows the columns that changed and the new version to
others. Settings may be saved and other requests commit between any two. A destroy is `BeginDestroy` (find the row, read
`versions.last`), `Reify`, the same four steps ending in `SaveRevert` (`without_versioning { widget.save! }`),
`PickVersion` (`versions.last`, read again) and `DropVersion`, or `Withdraw` when there is nothing to revert to; each
transaction commits by itself, so `Fail` and `Crash` may come between any two. `DestroyVersion` and `SetTeam` are other
mutations. `held` and `steady` are history: the statuses the row has had, and whether settings were saved while requests
were under way. The row is the one status that is created with the media, and stays with it: a second one made with
createStatus, or given to the media by an update of `annotated_id`, is not modelled.

**UndoStack** is what users are promised: a stack of states and an undo. **StatusUndo** maps the row and the versions to
that stack (`StatesOfStatus`), and `get_annotations_log` to `LogEntries`.

**SearchIndex.** `db` is what the database holds for each field and comment, `doc` and `children` the documents, `found`
the document as searches see it, `jobs` and `work` Sidekiq. `Take` is the search for the parent, `StoreChild` and
`StoreParent` the two writes of a job, `Retry` an exception that Sidekiq catches, `Lose` a job that is given up or dies
with its process. `Create`, `Commit` and `RollBack` split the transaction of a new media, since the document is stored
inside it. `queued` is history: the values jobs were queued with, those of saves that rolled back included. Tags take the path of comments. A job skips a blank value; values of the model are not blank.

**Permissions** holds the order of the roles and the abilities of each on media and annotations, given the role in the context team;
`Annotations`, `Membership` and `RequestContext` extend it.

**Membership.** One public team, context of all requests. `rows` is `team_users`; `cache` the entries `role_{team}_{user}`
with their age in ticks; `since` is a history variable that counts the ticks since a user had each role, so that `Settled`
can say who has had no other role for the life of an entry. `BeginCreate`, `Insert` and `RecordNotUnique` are a create with
its look-up; `BeginUpdate` and `Save` an update, of the user of the row, of its status and of its role: the ability asks for
the role of the user that is assigned (`Asking`), so that an update may take a row from any owner. It may name another
team too, which is not modelled: here rows stay with the team. `Destroy` finds and deletes in a step. `Enter` loads the abilities of
the user, as every request does. Mails and Slack are left out.

**Annotations.** One project media, `Here`, and for each team another one that stays as it is: `rows` are their tags, flags
and comments, each with the media it is on, `overrides` the embeds of `Here`, `home` the team of its project. A create is `BeginCreate` (with the validation, which looks for the tag) and `Insert`; an update `BeginChange`
and `Save`; a destroy `BeginRemove` and `Delete`. An update may assign a text and another media (`annotated_id`). What a request is
allowed is decided by the team of the annotated media as just assigned, which `load_polymorphic` reads through `cache`:
`TeamSeen` is the team when the entry was made. `BeginUpdate` loads the
media and looks for its embed; `SaveOverride` writes the column `data` of the embed whole, in a transaction of its own;
`Move` is the save of the media, asked only then. `alone`, `chosen` and `since` are history: whether requests have
overlapped, what was last set for each field, and how long ago the media was in each team.

**RequestContext.** `local` is what `Thread.current` keeps: the user, its `current_team_id` as it was loaded, and the team.
`BeginQuery` is the filters of a GraphQL request, by token, by session or for a query named About; `Switch` the save of
`set_current_team`; then `Look`, `Join`, `Quit` and `UpdateUser` are fields and mutations of the query, and `Finish` its end,
which clears nothing. `SignIn`, `SignUp`, `Confirm`, `Me`, `Update` and `Delete` are one step each, since what they decide
depends on their own thread; sign in by a provider is `FindByProvider` and `SaveByProvider`. `decision` is history: the
permission that was asked for in the last step, in whose name and in which team; `ever` the teams a user was in. A user
has one role in a team and only rows of members are kept: what happens to roles is the subject of `Membership`. `me`,
the update and the deletion of an account are modelled as the code has them, decided by the user that the thread was
left with; `OfAccounts` names them, and the two properties about names leave them out.

**MediaCreation.** A createProjectMedia with a URL is one transaction of many queries: `Normalize` (the first `valid?`),
`Find` and `Validate` (`find_or_create_by`), `InsertLink`, `Author` and `InsertAccount` (`set_account`), `Check`
(`is_unique`) and `Store` (the INSERT, the callbacks, COMMIT). `links`, `accounts` and `pms` are committed rows; what a
transaction has inserted stays in its request until `Store`, and another INSERT of the same URL waits for it
(`LinkHeld`, `AccountHeld`), as unique indexes of PostgreSQL have it. The other requests are createProjectMedia with an
id, createAccount, updateProjectMedia of the project or the media (`BeginMove`, `Move`) and destroyProjectMedia.
The source that is created with an account is in its step. Pender may refuse a URL at any call. A create or an update may
name the id of a link there is or any of `Strays`, whether or not a link has it or comes to have it: a create of such an
id fails where the callbacks read the media (`NoMedia`), an update is stored.

**Library** is what teams are promised of their links: `links`, `accounts` and `pms` as if each request were served at once.
A link is published with its project media and the account of its author, or not at all; a project media is created of
a link that is there, and given another id only by an update; nothing is taken away but project media. `MediaCreation` implements it with its three tables as they are
committed (`ImplementsLibrary`); the eight stages of a request in between are stutters.

PostgreSQL, ActiveRecord's dirty tracking, Sidekiq and Elasticsearch are external: modelled as the code uses them and
marked so in `map`.

MC modules give small sets for the constants. The `*_proofs` modules hold the theorems.

## 3. Runs

| Run | Instance | What it shows |
|---|---|---|
| `status_concurrent` | 2 threads, an owner, 2 statuses, updates up to 2 versions | with overlaps, crashes, changes of settings and destroyVersion between any two queries: a destroy restores a status that was held, a withdrawn status does not come back, a status that is written was on a list in force since the request began, and while no settings are saved the changes that are announced have labels |
| `status_serial` | 1 thread, 2 owners and a contributor, updates up to 4 versions | `StatusUndo` implements `UndoStack`, a destroy deletes the version it restored, the log has one entry per change that stands |
| `status_two_destroys` | 2 threads, 1 owner | violated: of two overlapping destroys, one deletes a version that was not restored |
| `status_refused_destroy` | 1 thread | violated: a journalist's destroy is refused after the revert was saved |
| `search_index` | 2 workers, 2 fields, 1 comment, 2 values, 3 jobs, 1 retry | the index holds only values that jobs were queued with; when saves are spaced, it agrees with the database whenever quiet, and gets there |
| `search_overlap` | the same, nothing fails | violated: the job of a comment puts back the status from before one that was saved and indexed close to it |
| `membership` | 2 users, 2 threads, TTL 1, 2 rows; join as an editor, ban, promote, give the row to another user | one row per user, no role older than TTL, a ban stands against late saves, a destroyed row stays away, owners that are settled and keep their row are overruled by owners only |
| `membership_roles` | 3 users, 1 thread, TTL 1, 3 rows; join as a contributor, promote, demote | violated: an editor demotes an owner whose earlier role is still cached |
| `media_creation` | 2 threads, 2 projects, 2 URLs of one author and an alias, 1 id that links may come to have, 3 requests | a URL has one link, an author's links share an account, a refused request leaves no link, the tables implement `Library`, waiting ends; without overlap a project has a media once and no index refuses anything |
| `media_duplicate` | the same, 1 project | violated: two overlapping requests, or an update, put a media in a project twice |
| `annotations` | 2 threads, 2 teams, 2 users as 3 callers, TTL 2, 3 requests | annotations are changed by a team the media was in less than TTL ago, unless the request names another media of its own team; a destroyed media gets none after that; without overlap a tag is there once and the title shown is the one last set |
| `request_context` | 3 users (one not registered), 2 teams, 2 threads, 4 requests, 1 join or leave | decisions are made as the user and in the team of the request, the current team of a user was one of its teams, nobody is kept out by what a thread was left with |

Every property of a passing run has a mutant in `PROJECT.json`: a change of one definition, as a plausible bug would make
it, with which TLC finds the property violated. The five violated runs are the findings, each against a sentence of the
code, a comment or a test, quoted there.

*Bounds.* `MaxVersions`, `MaxJobs`, `MaxTries`, `MaxRows`, `MaxBegun`, `MaxRequests` and `MaxMoves` stop new work, never work under way. Two
threads or workers are the least that interleave, and every conflict in this code is between two: a look-up and an
insert, a load and a save, two stores of one document. Three versions are the least in which a destroy can pick a wrong one;
three jobs have a third overwrite what two have left; three requests have one find what the two before it made; four
have a thread serve one user after another while the other thread does the same, and one move lets a user leave, or
join, between any two steps of them. In `annotations` a TTL of 2 tells an entry that is young from one about to expire. In
`membership` the smallest TTL is enough to tell a role that is kept from one that expires; the theorem holds for any TTL.
Threads are symmetric, and users of `Membership`, in runs without liveness.

*Deadlock* is checked for all modules but two. `SearchIndex` and `MediaCreation` stop when the bound is
reached and all work is done, so their runs say `CHECK_DEADLOCK FALSE`; that work does get done is `SearchSettles` and
`RequestsEnd`.

*Fairness.* `SearchIndex`: `Commit` (a transaction ends), `Work(w)` (Sidekiq runs its threads) and `Refresh`
(Elasticsearch refreshes by itself each second). Nothing is assumed of saves, failures or retries; retries are limited by
Sidekiq. `MediaCreation`: a request in progress takes its next step, weakly fair per thread, since the application server
runs its threads and the client of Pender times out; that a waiting INSERT goes on is not assumed but follows, as the
transaction it waits for has to end.

## 4. Proofs

| Module | Theorems | Argument |
|---|---|---|
| `StatusHistory_proofs` | `TypeCorrect`, `DestroyRestoresHeldStatus`, `NoResurrection`, `OfferedWrites`, `NamedChanges` | `HeldInv`: what the row, any version or any request in flight holds as a status was once the status of the row. The property speaks of the row only, but a revert writes what a request has kept, so the invariant has to speak of requests and versions. `OfferedWrites` and `NamedChanges` rest on `ServedInv`, what the save of each thread has found out and whether it still holds when others commit: its status was on a list read since it began; while no settings are saved, that list is the one in force; and the stored status is the one it has read before, or one that another save has validated |
| `StatusUndo_proofs` | `SerialInvariance`, `LogAtRest`, `LogOfOneThread`, `DropsRestored`, `UndoIsExact`, `UndoOfOneThread` | `Lineage`: the versions can be listed by age, the first keeps nothing and each other the state before it; and what the one request in flight has read is still so (`RequestInv`). A step adds a version at the end of the list or drops the last, which is a push or an undo of the stack; the log shows what the versions after the second keep, and the row |
| `SearchIndex_proofs` | `TypeCorrect`, `SpacedSaves`, `NothingForgotten`, `OnlyQueuedValues` | while saves are spaced: one job at most is outstanding (`OneJob`), it carries the value of the database and is the only reason a copy or a search differs from it (`JobsCurrent`), and what the index lacks, an outstanding job brings (`Covered`). `ValuesInv`, always: documents stored, found or carried by a worker, and jobs, hold values that were queued. `NothingForgotten` states `OneJob` and `Covered`, the safety half of `SearchSettles` |
| `Membership_proofs` | `TypeCorrect`, `Uniqueness`, `Staleness`, `NoReturn`, `BansStand`, `OwnersStay` | `FreshInv`: a cached role was the user's no longer ago than its entry is old. An entry written from the cache would break it, so `AskedFresh` shows that what is added is the role of now. `IdsInv`: an id is of one row, so that an UPDATE touches the one that was loaded, whoever it is of by now. `BansStand` rests on `Uniqueness`: a banned user has no second row. `OwnersStay` rests on `RecentRole`: a cached role of an owner that is settled can only be owner. Its statement excepts requests that name another user for the row, of which the code asks only the role of that user |
| `MediaCreation_proofs` | `TypeCorrect`, `Uniqueness`, `LinksNeverAlone`, `OnceAlone`, `NeverTakenAlone` | a URL that a transaction holds is neither committed nor held by another (`LinkFree`, `AccountFree`), a request is `Coherent` with what it inserted, ids of project media are below the sequence, and what a request that is alone has read still holds (`Undisturbed`) |
| `MediaLibrary_proofs` | `Referential`, `LibraryKept`, `NoCircle`, `Forward` | `LibraryInv`: what a transaction has inserted has ids that no other transaction and no table has, the account it has inserted is the one its link refers to, and a media it has not inserted is a committed link or one of `Strays`. Then `Store` is one step of `Library` and every other step of a creation a stutter. `NoCircle`: who has inserted an account waits for nobody, and who has inserted a link waits for such a one at most, so nobody waits in a circle. `Forward`: a step begins a request, ends it or brings it further |
| `Annotations_proofs` | `TypeCorrect`, `TagsOnce`, `TitlesStand`, `TeamChanges`, `NoneLate` | an entry of the cache holds a team the media was in no longer ago than the entry is old; a request that is alone finds what it read unchanged (no such tag, the oldest embed); ids stay below the sequence. `NoneArrives`: a request that names another media brings no annotation to this one, so that what is decided elsewhere only takes annotations away or writes one that was loaded there |
| `RequestContext_proofs` | `TypeCorrect`, `OwnName`, `OwnTeam`, `CurrentJoined`, `MayEnter` | `Known`: a thread keeps no current team its user was never in. `Fits`: once the filters have run, the current user is that of the request and the team is the one it names or, if it names none, one the user was in or none. What else a thread was left with is known only to be well typed, so each handler has to overwrite what it relies on |

The assumptions are those on the constants, named in each module and evaluated by TLC: `Nil` is none of the values, the
default is among the statuses, roles are nested, `TTL` is positive, Pender's answers are URLs. The proofs are for any number of threads, users, teams, workers, URLs, projects and any bound.

The theorems of `StatusUndo_proofs` have hypotheses about behaviours, since what they state is false without them. `Alone`:
no two requests are served at once; `status_two_destroys` shows that otherwise a destroy deletes a version it did not
restore. `NoneRefusedHalfway`, of `UndoIsExact` only: no destroy is refused between its two transactions, as
`status_refused_destroy` shows it can be. The corollaries give the deployments where both hold: one thread, and a
team whose journalists are all owners; `status_serial` is such an instance. Processes may die in
`SerialInvariance`, `LogAtRest` and `DropsRestored`; a destroy that dies halfway is no undo.
`Referential` and `LibraryKept` have no hypothesis about behaviours, but what they promise of the media of a project is
weak on purpose: a link that is there or one of the ids in `Strays`, which may be any set of numbers, since no foreign key
and no validation asks more of an update. For requests that name links there are, `Strays` is
empty, and they say that every project media is of a link.
`AnnouncedChangesAreNamed` speaks of the time in which no settings are saved while requests are under way, since a label
that was looked up may be gone by the COMMIT.

Model-checked only: liveness, `SearchSettles` and `RequestsEnd`, which with ENABLED is beyond the prover. Of each the safety
half is proved: `SpacedSaves` with `NothingForgotten`, and `NoCircle` with `Forward`; what is left to TLC is that a fair
scheduler gets to the end of finitely many steps. Induction over data and RECURSIVE operators are beyond the prover too; no
module declares one, and the order of the versions is stated as a list that exists, so that no proof needs one.

## 5. Not modelled

- Claims and uploads: each creates a new media, so nothing is looked up.
- updateAccount and destroyAccount; the destruction of a link or a media, for which there is no mutation of its own, through
  a destroy mutation of something else that is given its global id (`graphql_crud_operations.rb:48-51`). In
  `MediaCreation` links and accounts stay.
- An update that gives a member's row to another team (`team_id`), or a status to another media (`annotated_id`). An update
  of an annotation that names a media is modelled, with media of each team that are neither moved nor destroyed, but not
  one that names a source.
- A second status of one media, statuses and annotations of sources and project sources, the entities of a comment.
- Blank values, which jobs skip.
- Mails, Slack and Pusher beyond the exceptions they raise inside a transaction.
- Moving a whole project to another team (moving a media is in `Annotations`), and the abilities to read: teams are public.
- API keys (one look-up by token), remember-me and the reset of passwords, which are Devise's.
- Search queries, projects, contacts, GraphQL types, uploaders, validators and rake tasks: one save or reads only.
- The scripts under `public/`: third-party libraries served as they are, and the links that one adds to GraphiQL.

`PROJECT.json` gives the reason for each component. Of the hazards, those without a property say why: chiefly that the code
promises nothing there. One shows in a model all the same: `SaveOverride` commits a title before `Move` asks whether
the media may be updated. Three more things the code promises nothing about: the last owner of a team may leave it
(`ability.rb:130`), documents of comments and media that were destroyed stay in the index, and a membership request that
two owners accept sends its mail twice (`team_user.rb:47`).

## 6. Plan

In order of what matters most to users:

1. *Notifications*: mails of membership requests, sent twice or contradicting each other; Slack after the fact.
2. *Several statuses* of one media (`last_status` against `last_status_obj`), on top of `StatusHistory`, and blank values in
   `SearchIndex`.
3. *Account requests*: what `me`, update and deletion should decide, once the code sets a context for them.
4. *SearchQuery*: `number_of_results` against `medias`, with documents of destroyed media, on top of `SearchIndex`.
5. *Private teams*: the abilities to read, and projects that move between teams.

Theorems next: that a sign in and a query of `RequestContext` implement a server that keeps nothing between requests; that
rows of `Membership` implement a register of members with the races it allows; and the theorems of the modules above.
