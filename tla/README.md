# Verification of the pessoa API

TLA+ modules, TLC runs and TLAPS proofs about the program in `src/`: a REST API
in C that registers people ("pessoas"), looks them up, searches and counts
them. Two instances of one process share an SQLite file; nginx spreads the
requests over them.

## The system

| Component | Source | State | Operations |
| --- | --- | --- | --- |
| Request path | `src/src/handler.c` | one `Post` per POST connection (`*reqptr`): stage counter, response decided so far, `Pessoa *` | `handler()` once per event of a connection, `get_handler`, `get_pessoas_id`, `get_pessoas_term`, `request_completed` |
| Database access | `src/src/db.c` | one connection per call of `handler()`, opened and closed inside it | `db_open`, `db_close`, `db_create_tables`, `db_list_tables`, `db_get_apelido_exists`, `db_insert_pessoa`, `db_get_pessoa`, `db_get_pessoas_term`, `db_count_pessoas` |
| Process life | `src/src/main.c` | where `main()` is | boot, serve, `sighandler` |
| Conversions | `src/src/pessoa.c`, `common.h` | the arrays of `struct Pessoa` | `json_as_pessoa` field by field, stack list to and from text, row list to JSON |
| JSON parser | `src/src/json.h` (third party) | the state of one parse | `json_parse` in two passes: sizes, then values in one allocation; writing and copying a value, which the program does not use |
| SQLite, libmicrohttpd | not in the repository | rows, locks; connections | as `db.c` and `main.c` use them |
| Deployment | `nginx.conf`, `docker-compose.yml` | which servers are tried, and left out for a while | dispatch, passing on, restart |

How they interact. Each instance runs libmicrohttpd with
`MHD_USE_SELECT_INTERNALLY` (`main.c:40`): one thread, one call of `handler()`
at a time. For a POST the calls are: one when the headers are in (a `Post` is
made), one per received piece of the body, then calls without data until a
response is queued; calls for other connections come in between. Inside one call
`handler()` opens the database, asks, maybe inserts, and closes, and every
SQLite call that finds a lock taken is repeated for ever with a sleep
(`DB_COMMAND_INNER`, `db.c:28-33`). The instances meet only in the database file,
where their steps interleave freely.

What is hard, and what must hold:

- **Check, then insert.** The nickname is looked for and inserted in two
  statements of two processes. No nickname may be stored twice, and what each
  client is told must be explained by the database (`UniqueApelido`,
  `CreatedIsTaken`, `CreationsAreExplained`, `RowsAreCreated`, `DuplicateIsTrue`,
  `DuplicateIsRefused`).
- **A protocol of callbacks.** The stage of a POST counts calls, the status is
  decided calls before it is sent, the `Post` is freed in a third function
  (`PostLifecycle`, `Control`, `CreationsAreExplained`, `FailuresHaveCause`).
- **Errors on every call.** Each may fail alone; the connection must be closed
  and the status must say so (`ConnectionDiscipline`, `FailuresHaveCause`).
- **Reads beside writers.** An answer must contain all that was stored when it was
  asked for (`ReadsAreFresh`).
- **Texts in arrays.** A nickname passes six arrays and columns, each with its own
  size and rule for its end (`StringsEnd`, `SearchShowsAsSent`, `LookupShowsPrefix`,
  `StrayOnlyWhenEmpty`), a repeated field is copied over the one before
  (`RepeatsStayInField`), and what a body is told depends on them (`AnsweredTruly`);
  what `json_parse` allocated must be freed on every return (`RootIsFreed`).
- **Searches in texts.** Three columns, one of them a list as one text that is taken
  apart again (`SearchShowsAsSent`, `SearchFindsOnly`, `ItemsAreSplit`), and a statement
  printed into a buffer (`SearchFits`); the answer is JSON that is put together by hand
  (`AnswersAreJson`).
- **Two passes over one text.** `json_parse` writes without a check into memory that
  other code has counted (`FillsAllocation`, `RepeatsFirstPass`,
  `ReadsWhatWasAccepted`), must take JSON and nothing else (`AcceptsJson`) and calls
  itself for each bracket (`RecursionIsNesting`). Writing and copying a value are two
  passes as well, and together with parsing must lose nothing (`WrittenAsRead`).
- **Waiting without a limit.** A lock that is never freed would stop an instance
  (`Answered`, `ServesAgain`).
- **Death and restart.** `_exit` in a signal handler at any step, docker's
  restart, a proxy that hands some requests to the other instance
  (`Bootstrapped`, `DeployConnections`, `ImplementsRegistry`, `Settles`).

## Modules

```
Sqlite <- Handler <- Refinement (INSTANCE Registry) <- MCHandler <-+
             ^                                                     +- MCDeployment
             +------ Deployment <----------------------------------+
Pessoa <- Answers <- MCPessoa
             |
             v
        JsonGrammar <- JsonParse <- JsonWrite <- MCJsonParse

Proofs, each with the modules it extends:
HandlerProofs     Handler
AnswerProofs      HandlerProofs, Refinement
DeploymentProofs  AnswerProofs, Deployment
DataLemmas
PessoaProofs      Pessoa, DataLemmas
TextProofs        Answers, PessoaProofs
JsonLemmas        JsonParse, DataLemmas
JsonProofs        JsonLemmas
```

**Sqlite** (external). `rows` are the committed rows, reduced to `uuid` and
`apelido`, the columns that decide anything; `writer` holds the write lock of an
INSERT, `excl` the exclusive lock with which the last connection of a WAL database
checkpoints when it closes; `opened` are the processes that have touched the
file. A step whose lock is taken is not enabled: that is the loop of
`DB_COMMAND_INNER`. `CommitRow` keeps the row out when PRIMARY KEY or UNIQUE
refuses it (`db.c:6-13`).

**Handler**. `pc`, `exec`, `tries`, `ret` are the call in progress of each
instance: the function and line it is in, the request it is for, and the local
variables `count` (of `MAX_DB_TRIES`) and the query's result. Per request there
is what was sent (`input`), the state of the connection (`phase`), the pieces of
the body to come (`left`), `*reqptr` (`post`), the queued status (`reply`) and
the rows a query saw (`seen`). `known`, `hurt` and `faults` are history, read by
properties only, but for the bound on `faults`.

| Action | Code |
| --- | --- |
| `FirstCall` | `NULL == *reqptr` (`handler.c:221-231`) |
| `FirstChunk`, `EmptyBody` | POST_STAGE_PROCESSING up to `db_open` (`:244-288`), with and without data |
| `OpenOk`, `OpenFail` | `db_open`, with the retries of the two searches (`:56-64`, `:80-88`) |
| `Check`, `CheckFail` | `db_get_apelido_exists` and the switch on it (`:290-305`) |
| `InsertBegin`, `InsertCommit`, `InsertFail` | `db_insert_pessoa`, whose result is ignored (`:306`) |
| `Respond`, `NextChunk` | POST_STAGE_RESPONSING after and during the upload (`:318-339`) |
| `StartGet`, `RefuseGet`, `Read`, `ReadFail` | `get_handler` and the three SELECTs (`:107-159`) |
| `CloseLast`, `Close` | `db_close`, and what the function returns |
| `OtherMethod` | the NULL response (`:349-354`) |
| `RequestCompleted` | `request_completed` (`:176-190`) |
| `Send`, `Receive`, `Abort` | clients, MHD, and peers that go away |

A JSON body is reduced to whether `json_as_pessoa` takes its first piece (`ok`)
and to the nickname that is stored; `Clamp` maps a nickname to its first 32
characters, which is all that `db_get_apelido_exists` looks for (`db.c:215`),
while the INSERT stores 33 (`db.c:129`, `pessoa.c:72`). Of a term a request has what
it matches and whether it leaves a statement at all (`sql`): the text is printed into
the SQL as it is (`db.c:324`), and one with a single apostrophe, or one too long for
the buffer, is an error of SQLite without any failing call (`Spoilt`).

**Registry** is what clients are promised: a request is asked, may be stored in one
indivisible step, may be hit by a failure, and is answered once with an answer the
registry justifies. **Refinement** maps Handler's variables to it and states
`ImplementsRegistry`; it is checked for Handler alone and for Deployment.

**Deployment** puts `main()` before the event loop (`up`: every call of it up to
`MHD_start_daemon`, each of which may fail), adds `Crash` at any step of a live
process, docker's restart and nginx: which servers a request has been tried on
(`tried`), and which are left out for a while because they failed (`shunned`).
Like nginx by default, it hands a request on when its connection was refused or
broken, but never a POST that was already passed to a server.

**Pessoa** follows the texts of a person on their way in, for one instance and one
request after the other: the fields of a body one by one into the arrays of
`struct Pessoa` (`ApelidoField`, `NomeField`, `DateField`, `IdField`, `StackField`,
`UnknownField`), the check and the INSERT of their C strings (`Refuse`, `Create`). An
array is a function from its offsets to bytes, so a text without an end runs
on into the next array as it does in C; NUL, `"` and `,` mean something, the other
bytes are interchangeable. What `strptime` and `strftime` make of a date is the
constant `DateOf`; a date of eleven characters fills its array (`FullDates`), and
whether it is taken then depends on what the stack of C holds behind it, so both may
happen. A row goes to any place of the table, because its key is random. Handler and
Pessoa look at one program from two sides: Handler has interleaving, failures and
nicknames as values, Pessoa has what a nickname is; `Clamp` of Handler is `Exists` of
Pessoa.

**Answers** has what a row looks like on its way out, as operators on the rows of
Pessoa, because nothing changes while they run: `Lookup` (`db_get_pessoa`), `Search`
(`db_get_pessoas_term`: `Like` for the three columns, the copies of
`db_inner_get_pessoa`), and `PersonText` and `ListText` for the JSON that is answered.
`Lost` is the end of the statement that the buffer has no room for: then the search is
an error and answered 500 without a body (`IsStatement`, `Status`), or one without its
LIMIT (`LimitOf`), whose rows may be more than the array of persons has places for
(`HasList`). A character outside ASCII is two bytes, `lead` and `trail`, which `Like`
counts as one (`Width`) and a copy may cut (`Whole`). The references are written without any
array: `Plain` says which bodies mean one thing, `Sent` what was sent with one,
`Mentions` whether it has a term.

**JsonGrammar** is JSON as ECMA-404 has it, over texts that are sequences of
lexemes: escape sequences by what they stand for, one digit that is not zero, one
ordinary character; of the bytes of another one, `lead` and `trail`, none without the
other. `IsJson` is the reference for what `json_parse` takes and for
what the program answers, and shares nothing with either.

**JsonParse** is `json_parse` (`json.h`) with the default flags. The first pass
(`json_get_*_size`: the actions `Size...`) refuses what is not JSON and counts memory,
the second one (`json_parse_*`: the actions `Parse...`) fills it and checks nothing,
and builds `tree`. The recursion of the C functions is the stack `open`; a string, a
number, a word, or a key with its colon is one step, as each is one function call. The
error codes are left out, because `json_parse` gives no place for them. Where the code
tells `offset == size` from `offset > size`, so does the model: an exponent without
digits ends one past the text.

**JsonWrite** has the functions of `json.h` that take a tree apart again, as recursive
operators: `Minified` and `Pretty` with the sizes that are allocated for them, and
`Copied` (`json_extract_value`) likewise. The program calls none of them; they are the
second half of the parser it carries, and what they write is an independent check
of the tree that it builds.

**MCHandler**, **MCDeployment**, **MCPessoa** and **MCJsonParse** give the sets of
requests, bodies and texts for TLC. The modules whose names end in **Proofs** hold the
theorems, **DataLemmas** what they need of numbers and sequences, and **JsonLemmas**
what the operators of JsonParse compute.

## Runs

Those of Handler and Deployment have instances `i1`, `i2` and nicknames `a`, `b` and
`long`, which has 33 characters and begins like `b`. `Input` is the set of requests
each client may send; every combination is an initial state.

| Run | Config | Bounds | Shows |
| --- | --- | --- | --- |
| mixed | HandlerMixed | 3 requests, creations and all three queries, no fault | who gets a nickname and what each client is told: `UniqueApelido`, `CreatedIsTaken`, `DuplicateIsRefused`; reads are fresh |
| faults | HandlerFaults | 2 requests of every kind, malformed and split too, 3 failing calls, hang-ups | types, the life of a Post, database connections are closed on every error path, each error and closed connection has its cause, and `ImplementsRegistry` |
| live | HandlerLive | 2 requests, 1 failing call, fair | `Answered` |
| crash | DeployCrash | a creation or a search from 2 clients, 1 death, no failing call | locks die with their process (`DeployConnections`), no row that is stored is told otherwise (`ImplementsRegistry`) with deaths and passing on |
| settle | DeploySettle | 1 client of 3 kinds, 2 deaths, 1 failing call, fair | the table is there before anything is served (`Bootstrapped`), `Settles`, `ServesAgain` |
| texts | PessoaTexts | 3 posts of 30 bodies, names of 2 bytes, 2 items of 3, lists of 2, 11 terms | what is shown is what was sent, a search finds what it should and fits its buffer, answers are JSON, strings end, memory is freed |
| json | JsonTexts | 5668 texts: 14 JSON texts and all that is one lexeme away, fair | exactly JSON is taken, the second pass repeats the first and stays inside its memory, `json_parse` returns; what it built is written and copied without a loss |
| cutname | PessoaLookup | violation, 1 post | `LookupShowsAsSent` |
| cutlist | PessoaList | violation | `EveryRowIsListed` |
| race | HandlerRace | violation | `CreatedIsStored` |
| overlong | HandlerLong | violation, one instance is enough | `EveryDuplicateIsRefused` |
| split | HandlerSplit | violation | `UploadIsAnswered` |

Why the bounds are enough to mean something. Two instances are what is
deployed. Two creations of one nickname are the race; the third request in
`mixed` is the one that comes after it and sees either row. `MaxTries` is 2
instead of 10 with `MaxFaults` 3, so that the retries can be used up and the answer to
a search that gave up can lack memory too; fewer failing calls reach every other error
path. `Limit` is 1 instead of 50, so that a search can be cut. One death is enough for
a process to leave each lock behind; in `settle` both instances may die, or one twice.
In `texts` the bodies have names that are short, longest (2), one and two bytes too
long, and items up to the 4 bytes that the parser takes; a full stack of documented items
fills its text exactly as at the real limits (`2 * (3 + 3) = 12`, one more than its text,
like `52 * 35 = 1820`), and three rows overflow a list of two. Two bodies have a
character of two bytes that is cut: in an item of 4 bytes, and in a nickname of 2 that a
lookup shows. The terms are empty, in capitals, across an item, a wildcard, a comma and too
long for the statement: `SqlRoom` is 23 and, like the 356 bytes that `db.c:323` leaves
for three terms, one less than a multiple of three, so that terms of 8, 9 and 11 bytes
lose the semicolon, make an error and lose the LIMIT, as 119, 120 and 122 do. Only one
item of a body is longer than documented: it runs on into the next slot, and two of
them would print past the end of the list text, after which nothing is defined.

The JSON texts of `json` use every production of
the grammar and every kind of escape, nested two deep; a single lexeme dropped,
inserted or replaced anywhere, or an early end, reaches every refusal of the first
pass. Among them are keys that are there twice, empty and nested lists, and every
lexeme inside a string. The runs without symmetry are the ones
with liveness or with few states. Systems stop when every request has ended, so
deadlock is not checked; that they do not stop earlier is `Answered` and
`Settles`.

Fairness. `FairSpec` asks weak fairness of each instance's thread: a thread that can
take a step takes one, which covers MHD's event loop and the repeated calls of
`DB_COMMAND_INNER`, because a lock that stays free is found free at the next try.
A request reaches some instance. Failures and hang-ups are never due. With the
finitely many requests of a run this is enough; it does not exclude, and the code
does not exclude, that an endless stream of writers on one instance starves the
other one's INSERT. `FairDeploySpec` adds that docker restarts, `main()` runs and
nginx acts; deaths are never due. Fairness is per instance, not per connection:
MHD may serve the connections of an instance in any order.

## What the code does otherwise than it says

- *race*: 201 and a Location are sent although the other instance's row took the
  nickname between SELECT and INSERT: `handler.c:304-307` decides before it
  inserts and ignores the result. `API_DOC.md:6-7` says a POST creates a resource.
- *overlong*: a 33-character nickname passes `get_field_str` and is stored, but
  the check compares 32 characters; creating it twice gives two 201s.
- *split*: `handler()` takes the first piece of a body for the whole. When a second
  piece comes, a response is queued during the upload, MHD refuses it and closes
  the connection, although a row may be stored.
- *cutname*: a lookup drops the last byte of a nickname or a name of maximal
  length; `snprintf` counts the NUL (`db.c:283`).
- *cutlist*: a body with three fields need not have an `apelido`; its row has an
  empty nickname, which `pessoa.c:227` takes for the end of the list.

More, without a run of their own, each an exception that a property names:
`pessoa_as_json` escapes nothing, so a quotation mark in a name is answered in the
middle of a JSON string (`pessoa.c:57`, `AnswersAreJson`). In a term the percent sign
and the underscore are wildcards, which `API_DOC.md:14` does not say, and a comma or a
quotation mark is found between the items of a stack (`SearchFindsOnly`); capitals are
small letters for ASCII only. A term of 119 bytes loses the semicolon of its statement, one
of 120 or 121 or more than 122 is an SQL error that is answered 500, and one of 122 loses
the LIMIT, so that rows beyond fifty are written behind the array of persons; none of this
happens to a term that a documented text contains (`SearchFits`). A comma or a quotation
mark in an item splits it (`ItemsAreSplit`). `snprintf` cuts bytes (`db.c:283`, `db.c:286`),
and so the last character of a nickname or a name of maximal length may be shown in part,
in a body that then is no JSON; a shorter value copied over a longer one may cut the
character behind its end as well (`WholePerson`). `json.h` writes a control character
without a short escape, and NUL, into a string as it is (`Exceptional`). And `json_parse` takes
a lone minus at the end of a text for a number and control characters in strings for
letters (the exceptions that `AcceptsJson` names; a body must be an object, so the
minus gets no further).

## Proofs

TLC checks the instances above; these theorems hold for every value of the
constants, under the named assumptions on them that the modules declare and TLC
evaluates in the runs.

| Part | Theorem | Property |
| --- | --- | --- |
| HandlerProofs: any instances, requests, nicknames, retries, number of failing calls | `Inductive` | `IInv`, the inductive invariant |
| | `TypeCorrect`, `PostsAreKept`, `CallsAreUndisturbed` | `TypeOK`, `PostLifecycle`, `Control` |
| | `Connections`, `Unique` | `ConnectionDiscipline`, `UniqueApelido` |
| | `Explained`, `Created`, `RowsHaveOrigin` | `CreationsAreExplained`, `CreatedIsTaken`, `RowsAreCreated` |
| AnswerProofs: the same | `AnswersExplained` | `AInv`, the inductive invariant of answers |
| | `DuplicatesTrue`, `DuplicatesRefused` | `DuplicateIsTrue`, `DuplicateIsRefused` |
| | `ReadsFresh`, `FailuresCaused` | `ReadsAreFresh`, `FailuresHaveCause` |
| | `Implements` | `ImplementsRegistry`, for `Spec` |
| DeploymentProofs: any number of deaths as well | `DeployInductive` | `PathInv`: all of the above but the closed connections, kept by every step |
| | `DeployImplements` | `ImplementsRegistry`, for `DeploySpec` |
| | `DeployAnswers`, `DeployRows` | the reasons of answers; `UniqueApelido`, `CreatedIsTaken`, for `DeploySpec` |
| | `ProcessesInductive` | the inductive invariant of processes and proxy |
| | `DeployTyped`, `TableFirst`, `DeployLocks` | `DeployTypeOK`, `Bootstrapped`, `DeployConnections` |
| PessoaProofs: any limits, any bodies that are JSON | `Inductive`, `TypeCorrect`, `Terminated`, `Freed` | `PessoaTypeOK`, `StringsEnd`, `RootIsFreed` |
| | `Held` | `TInv`, the inductive invariant of plain bodies |
| | `PlainIsAnsweredTruly`, `PrintsInside` | `AnsweredTruly`, `StrayOnlyWhenEmpty` |
| TextProofs: the same, any terms | `RowsHeld` | `ArraysKept` and `RInv`, the inductive invariants of texts |
| | `RepeatsStay`, `LookupIsPrefix` | `RepeatsStayInField`, `LookupShowsPrefix` |
| | `SearchShows`, `SearchFinds` | `SearchShowsAsSent`, `SearchFindsOnly` |
| | `SearchHasRoom` | `SearchFits` |
| | `AnswersParse` | `AnswersAreJson` |
| JsonProofs: any text | `JsonInductive` | `JsonInv`, the inductive invariant |
| | `JsonTyped`, `AllocationFilled` | `JsonTypeOK`, `FillsAllocation` |
| | `SecondRepeatsFirst`, `OnlyAcceptedRead` | `RepeatsFirstPass`, `ReadsWhatWasAccepted` |
| | `DepthIsNesting` | `RecursionIsNesting` |

The assumptions: `NoInst`, `NoReq` and `NoPost` are not values of the sets they mark the
absence of, the inputs are requests, bounds are numbers and limits positive ones
(`HandlerAssumption`, `DeploymentAssumption`, `LimitsArePositive`); strings and arrays
of a body are sequences, and what is no object has no fields (`BodiesAreJson`); a text
is a sequence of lexemes (`TextsOfLexemes`). For what is shown and searched: three texts
of any column, with four more bytes, fit the statement (`SqlHasRoom`; the longest are
100 bytes, and `db.c:323` leaves 356, two more than a multiple of three:
`RoomIsUneven`), terms are texts (`TermsAreTexts`), the letters of ASCII are no
quotation mark, comma or underscore and no part of another character
(`CharactersAreLexemes`), and `strptime` takes what `strftime` printed for the same
date, in characters of ASCII that need no escape (`DatesAreDates`).

**Handler.** None of the three parts of `IInv == TypeOK /\ PostLifecycle /\ Control` is
inductive alone. That the stage of a Post stays in `0..2` needs that `handler()` is
called again only in stage 0 or 1 (`PostLifecycle`); that nothing changes the Post
of a running call needs to know whose call runs and in which phase its connection
is (`Control`, by `Running`); and both need the types. One lemma per action,
`<Action>IInv`, shows that it keeps `IInv`; `OthersRun` is why a step for one
request disturbs no other call, `CheckChanges` what the decision on the nickname
changes.

On top of `IInv` the other invariants need less. `Connections`: `ConnectionDiscipline`
is inductive with `IInv`. `Unique` follows from `CommitRow` alone. `Created` follows from
`Explained`, and that from two further invariants: `CreatedOnce` (a request is inserted
at most once, so the INSERT that the 201 announces meets no earlier row of its own
uuid) and `CreatedIsExplained` (a 201 decided but not told has its nickname taken, a
failed INSERT, or the INSERT still ahead of it). `RowsHaveOrigin` uses `CreatedOnce` too.

**Answers to clients.** What a client is told was decided calls, and steps of other
instances, before it is told. `AInv` therefore says of each request why it has the
status that it has, from the moment it is decided in `post.http`, through the queue,
to the end (`PostReason`, `GetReason`), and of each running call what the result in
`ret` rests on (`CallExplained`): the form of the request, rows that were there when it
was sent (`known`), rows that are there (no statement of the model removes one), or a failure that
is recorded (`hurt`). A Post starts with 500, which is no decision yet (`Undecided`); that it
is one only while its call runs is what `Control` adds. The four properties follow from
`AInv` in a state, without another induction.

**Refinement.** Each step of Handler is `Ask`, `Store`, `Answer` or `Fail` of the registry,
or changes nothing that a client sees (`Promised`). Most lemmas are about the latter. The
two that matter: an INSERT that commits is a `Store`, because `CreatedOnce` says that
the request is not stored yet; and the step that sends a status is an `Answer`, because
`AInv` and `CreatedIsExplained` give the reason that the registry asks for.

**Deployment.** Its steps are Handler's steps with conditions, for which the lemmas
above are cited, and those of `main()`, nginx and death. A death is the one that had to be
proved anew, for each invariant: it ends a call anywhere, frees locks, and closes
connections. `DeployTypeOK` is not inductive: that nginx notes only instances it has
tried needs that a request on its way has been given to one, or lost (`Handed`). For
`Bootstrapped` the places of `main()` behind the creation of the table are added, and
that a process that is not serving has no request (`Booted`). `CloseHasCause`, the half of
`FailuresHaveCause` about connections, is not a property of the deployment: there a
death is one more cause.

**Pessoa.** `PessoaTypeOK`, `StringsEnd` and `RootIsFreed` with "the last body is JSON" are
inductive. The argument for `StringsEnd` is one of offsets: `CopyKeeps` and `PackKeeps` say
that a copy changes no offset after its last one, `Offsets` that the padding comes after
every slot, and the guards of the field actions bound the lengths.

A plain body is taken field by field (`PlainIsTaken`). `TInv` says what is in the arrays
then: the first one has the nickname with its end once the field was read and nothing
before, whichever fields come between (`CopyBehind`); every slot of the stack ends in
its last place, because no item reaches into that of another one (`SlotsApart`,
`PackFills`). So the C string that is looked for and stored is the nickname
(`NickStored`), which with the numbers of the rows (`RowIds`) gives `AnsweredTruly`; and at
most `MaxItems` items of `ItemLen + 3` characters are printed (`PrintedInside`), by
induction over what `FlattenSeq` joins.

**Texts.** The properties of Answers compare what a client is shown with what another one
sent, with six copies between. `RowsHeld` says what they keep, for every body within the
documented limits, in two inductive invariants. `ArraysKept` is about the body that is read:
in each array the last value that was read stands in front, and each character behind it
stands in the same place of an earlier value of that field or item (`Mixes`), because each
copy is as long as its text and no text is longer than its array. `RInv` is about the rows:
the strings of the arrays with which a row was made are such mixtures (`RowKept`, from
`KeptString` and `ItemsAre`), and ids are unique. What a body within the limits may hold
else does not matter, and a body beyond them says nothing of its own row, but keeps those
of others.

From there the properties are about one row. `RepeatsStay` reads the mixture off the
row. A body that is plain has no earlier values, so its row has the texts as they were sent
(`PlainRow`). That a stack comes back is `TokensOfList`: the items of a printed list are at
places one behind the other (`PrintedPlaces`), and `strtok_r`, which knows only quotation
marks and commas, reads exactly one token at each of them (`TokenRead`). `LookupIsPrefix`
is that and the `snprintf` of each column. For the searches, `Like` around a term is shown to
be "the text has the term" (`HasTerm`), in both directions only when the term has no wildcard;
a term without delimiters that is found in the column lies inside one item
(`SelectedMentions`); and `SearchIs` says which rows a list has: those that are selected, in
order, all of them or as many as its limit. `SearchShows` and
`SearchHasRoom` then need that a term so long that the statement loses more than its
semicolon is longer than every text that could have it.

`AnswersParse` is a derivation in the grammar. `IsJson` is a function defined by recursion
on the length of a stretch of the text; that it exists, and that each rule of the grammar
holds of it, is `RecursionExists` once more, for which the rules are operators that look at
shorter stretches only (`Derives`). The derivation then goes from inside out, always at a
place within the whole body: the strings of a person stand between quotation marks and hold
no character that ends them, because `NeedsNoEscape` says so of the row and every copy only
drops or moves bytes, and no part of a character, because `WholePerson` says so of what
is shown; the printed stack is a list of such strings; with the names
and colons of the template they are members; and a list has persons and commas. What
the arrays of the C code hold enters only as "the columns of a row are sequences"
(`RowsHeld`).

**JsonParse.** Both passes run over one text, one after the other, so no state has both
in it. `JsonInv` says that there is a run of the first pass: a set of configurations (offset,
open calls, what was counted) that begins at `Start` and in which each one but the
last has a successor (`Run`, `Steps`). During the first pass the state is the last one; in
the second pass it is at one of them (`Follows`), and its next step is the one that
leads from there (`TakesValue`, `TakesMember`, `TakesElement`, `Closes`), because what a
step does depends on the text and the place alone. A configuration carries the counters
of both passes, and `ConfigOK` relates them: the second pass is ahead by the structures
of calls that the first one counts only when they return (`Due`), the first one by one byte
for each surrogate pair (`Halves`). At the end nothing is due, so the allocation is
filled. `Nests` says that a configuration is outside of strings and has a call per open
bracket; it needs that a string that
is read is exactly one that the quotation marks of the text enclose (`StringKeeps`). `JsonInv` quantifies over sets of
configurations, so TLC cannot evaluate it; what follows from it is checked by the run
`json`. `HasRoom` is only for the bound of `JsonTypeOK`.

**Data.** The library's theorems of induction take a predicate as a parameter, which the
provers cannot instantiate. `SetInduction` of DataLemmas takes a set, and is proved from
`NatLessThanWellFounded`; from it come the existence of functions defined by recursion
on an interval (`RecursionExists`) and with it what the functions of JsonParse
(`Bytes`), `FlattenSeq`, and `Tokens`, `Picked` and `Like` of Answers compute.

Only model-checked: liveness (`Answered`, `Settles`, `ServesAgain`, `ParseTerminates`), which
is out of the prover's reach, together with `ENABLED`; `WrittenAsRead`, whose
operators are recursive, out of its reach as well; `ItemsAreSplit`, which would need
an induction over the items and their parts together; and `AcceptsJson`, which needs a
proof that a pushdown loop and a grammar agree. The
statements of the documentation that the code does not keep (`LookupShowsAsSent`,
`EveryRowIsListed`, `CreatedIsStored`, `EveryDuplicateIsRefused`, `UploadIsAnswered`) are what
the runs with a violation refute.

## Not modelled, and the plan

Left out for good: HTTP syntax and sockets, the wording of SQL, logging, the build
scripts, the constants of `test.h`, docker's resource limits. A torn database file is
excluded by SQLite's journal, an external fact here. Of `json.h`, what only the other
flags of `json_parse_ex` lead to (comments, unquoted keys, hexadecimal and infinite
numbers, locations) is not reached from this program; its error codes have no reader.

Simplifications to know: a body may lack its date, which then is shown as
`1900-01-00`; the uuid drawn for a request is the request, so no two draws of
`uuid_generate` collide; a term that ends the literal it is printed into is an error of
SQL, and requests whose terms make other statements are outside of what is modelled
(`Request`): after one of them nothing here is said of the rows; a character outside ASCII
has two bytes, which stand for two, three or four; the texts of `json` have none of these,
so whether a body is valid UTF-8 is not looked at; a response is delivered in one step;
nginx's timeouts of 300 seconds are hang-ups. `RecursionIsNesting` says what the depth of `json_parse` is, not that the C
stack has room for it: nothing in the code bounds the nesting of a body but its size.

What is left, in the order of its worth:

1. JsonParse: one half of `AcceptsJson`, that a value the first pass takes is one of
   the grammar, along the runs of `JsonInv`, with the rules of the grammar that
   TextProofs derives.
2. JsonWrite, with its recursive operators as functions over the tree of a value.
