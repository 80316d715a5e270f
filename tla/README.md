# A TLA+ verification of tilth

tilth is a code-reading tool for agents: a command-line program and an MCP
server (JSON-RPC over stdio) that searches, outlines, reads, edits and diffs
source trees. The modules here model the parts of it in which several actors
meet: the server's threads and their timeouts, the file-system calls of a write,
the batches of edits an agent sends, the caches and the session that outlive a
request, tagged reads beside editors, and parallel searches with their pages.

Sources are named relative to `src/src/`.

## 1. Inventory of the system

| component | source | state it keeps | operations | interacts through |
|---|---|---|---|---|
| MCP server loop | `mcp/mod.rs` | `pending_roots_id`, `tool_dispatched`, the process's working directory | initialize, roots/list reply, tools/call | stdin/stdout; starts one worker thread per call |
| Tool timeout | `timeout.rs` | `ThreadTracker.count`; per call a channel and `ThreadCoord` | `spawn_with_timeout`, the worker's closure | atomics and a one-place channel between the main thread and workers |
| `tilth_write` | `mcp/tools/write.rs` | none beyond the call | check for duplicates, direct writes, hash batch, answer | the file system; `apply_batch` |
| Hash edits | `edit.rs` | `IN_FLIGHT`, one mutex per file | `apply_batch` (parallel over files), `apply_edits` | the mutex; `util.rs` |
| Write primitives | `util.rs`, `mcp/write.rs` | temporary files | temp + rename, create-new, append | the file system |
| Outline and parse cache | `cache.rs` | two `DashMap`s keyed by path, stamped with mtime | `get_or_compute`, `get_or_parse` | shared by all requests and rayon threads |
| Bloom filter cache | `index/bloom.rs`, `search/bloom_walk.rs` | a `DashMap` of filters stamped with mtime | `contains` | shared by walker threads |
| Session | `session.rs` | counts; expansions already shown | record, claim, reset, summary | shared by all requests |
| Conditional reads | `read/source.rs`, `read/tags.rs`, `mcp/tools/read.rs` | per request: captured bytes | capture, tag, compare | thread-local request snapshot |
| Read engine | `read/` | none | choose a view, ranges, pages | outline cache |
| Outlines, languages | `read/outline/`, `lang/` | none | pure tree walks | tree-sitter |
| Searches | `search/symbol.rs`, `content.rs`, `callers.rs`, `glob.rs` | per call: counters and result vectors shared by walkers; gitignore override (thread-local) | parallel walks with early quit | caches, Session |
| Ranking, merging, facets | `search/rank.rs`, `facets.rs`, `merge.rs`, ... | none | pure | - |
| Impact tools | `search/deps.rs`, `blast.rs`, `grok.rs`, `trace/` | none | reports over searches and parses | caches, Session |
| Paging, budgets | `search/paging.rs`, `alloc.rs`, `truncate.rs`, `budget.rs`, `listing.rs` | none | pure, with continuation offsets | - |
| Structural diff | `diff/` | none | git, parse, match, format | git |
| Command line, installer, npm | `main.rs`, `lib.rs`, `install.rs`, `npm/` | host configuration files | one sequential command | `util.rs` |

`PROJECT.json` lists every component with its status, and every hazard with its
line. What is hard here:

* **Concurrency.** One call at a time is served, but a call that times out is
  abandoned, not killed: its thread goes on, writing files, filling caches and
  resolving paths, while later calls run. Inside a call, rayon and the walker run
  threads that share caches, counters and result vectors.
* **Races with the outside.** Files are written by editors, git and other tilth
  processes between any two system calls: caches validate by mtime, edits by
  line hashes and a last look before the rename.
* **Partial failure and crashes.** A batch of twenty writes succeeds or fails
  entry by entry; a process can die between the temporary file and the rename.
* **Answers in parts.** A search is paged, cut to a budget, merged from several
  scopes and collected again for every page, by threads that may stop early; what
  was once shown may be withheld later. A client that follows the navigation must
  miss nothing, and must be told when a total is only a lower bound.
* **Numbers.** An edit's line numbers must survive the other edits of its batch,
  and the numbers echoed back must fit the file as written, since an agent builds
  its next edit from them.

What makes each modelled component correct:

* *timeouts*: a call is answered once; the count of abandoned threads is exact;
  tool work is bounded; a thread whose work ended exits; the main thread never
  waits on a thread that waits on it.
* *server loop*: a tool resolves relative paths against one directory from
  beginning to end.
* *writes*: an edit overwrites nothing it did not see, but for a named window; no
  reader, and no crash, finds part of a replacement; a refused edit leaves no
  trace; every operation ends.
* *batches*: an error means nothing was written; otherwise the answer says of
  each entry what the disk says.
* *edits*: the file is the one the batch means; the echoed numbers are the file's.
* *caches*: what bears the file's present time is of its present content.
* *session*: a body is withheld only if it was rendered; of concurrent requests
  one shows it in full.
* *tagged reads*: what a request shows of a file was on the disk, in one version
  per request; a tag stands for a whole view.
* *searches*: a total called exact is; a page is a slice of one ranking; a client
  that does what the answers say sees every match.

## 2. Modules

```
AbandonedPool            what the timeout promises (abstract)
   ^ refined by
ToolTimeout              timeout.rs, handle_tool_call      -- McpServerProofs
   ^ extended by                                                (of both)
McpServer                the loop of mcp/mod.rs
WriteBatch               one tilth_write call              -- WriteBatchProofs
FileWrite                operations on one file            -- FileWriteProofs
EditSplice               one apply_edits, computed         -- EditSpliceProofs
FileCaches               OutlineCache, BloomFilterCache    -- FileCachesProofs
Session                  expansions, search and grok       -- SessionProofs
ConditionalRead          snapshots and tags                -- ConditionalReadProofs
SearchWalk               one parallel walk
   ^ extended by
Search                   scopes, ranking, pages, a client  -- SearchProofs
MC*                      TLC instances
```

The write modules cut one path at its natural seams. A call (`WriteBatch`)
decides what is written where, a file's write being one step; each of its writes,
and those of other calls, threads and processes, meet on one file in `FileWrite`,
system call by system call; the lines an edit puts there come from `EditSplice`.

### ToolTimeout, AbandonedPool

Each action is one access to memory that the main thread and a worker share.
`main` and `worker` are the program counters, `chan` the `bounded(1)` channel,
`coord`/`acked` are `ThreadCoord`, `count` is `ThreadTracker`. The atomics order
every access that matters (`AcqRel` compare-and-swap, `Release`/`Acquire` on the
acknowledgement), so interleaving is the right memory model. `Deadline` is
enabled whenever the main thread waits, also with a value in the channel, since
`select!` may take either branch. `WorkReturns` and `WorkPanics` carry no
fairness: tool work may hang. `AbandonedPool` has no threads: admit, refuse when
full, complete, abandon, release; the refinement mapping takes the winning
compare-and-swap for the moment of abandonment and hides the handshake.

### McpServer

Extends `ToolTimeout` with the loop. Messages are read only when `main = "idle"`.
`home` is history: the working directory each worker was started in. Messages
that change no state are left out.

### FileWrite

A content is the set of the writes it shows, each whole or part. `data` maps
inodes to contents, `path` is the inode under the file's name, so rename, append
to an orphaned inode, and outside deletion are what they are in the file system.
Every operation has its own inode for its temporary or created file. An operation
is a hash edit, an append, or a whole-file write; the last creates the file, or
finds it there and is refused (`AlreadyExists`) or, with `overwrite`, replaces it
(`ReplaceExisting`). The guard an edit takes is the one of the key its path has
when it asks (`AskGuard`): the canonical path while the file is there, the spelling
while it is not; `guard` is the set of edits that hold one. A crash kills the
operations of one process between any two steps, frees its guards and leaves its
files. `Breaks` says which writes touch the lines an edit anchors to. `raced` is
history: did the file change between an edit's last look and now. The last look
takes whatever it cannot read for stale (`RecheckStale`). Symbolic links, parent
directories and permissions are otherwise left out.

### EditSplice

The client reads the file (`seen`), the file may change, and the batch's anchors
are verified against what is there now. The reference definition is one sentence:
the first line of an edited range becomes the replacement, the rest of the range
goes, every other line stays (`Meaning`, line by line; `Reference` is what it
gives one after the other). The stable sort by start line is its specification:
`Position` is how many edits go before one, and `ByStart` has each at its position.
LF against CRLF is left out, and so is the clamp of an echoed number at zero, which
`ClampIsIdle` shows to change nothing.

### WriteBatch

Entries have a mode, a path as the client spells it, and possibly a fault. A path
is the name of a directory (or none: relative) and a name. The first may be a link
to a directory (`Leads`), which every system call follows (`Place`); the second may
be a link to a file, which a direct write refuses (`O_NOFOLLOW`). `Key` is the
canonical path of a file that is there and the spelling of one that is not. `Check`
is the up-front duplicate test on the raw paths, `BatchRefused` the second one on
resolved paths inside `apply_batch`, `Fold` the decision between an error and an
answer with sections. A write may fail before its first byte or half way; the piece
that a failed create or append leaves is `-i` on `disk`. A hash edit that fails
leaves nothing, as `FileWrite` shows.

### FileCaches

One file, versioned by its writes; each write gives a new mtime. Two writes within
one tick of the file system's clock are out of scope: no cache validated by time
can tell them apart. The five paths into the caches differ in the order of stat,
read and lookup. `entry()` holds the shard's lock until the value is stored
(`Enter`...`Fill`), while the filter cache's lookup and insert are two steps.
`OutlineCache` keys outlines by (path, capped); the two keys do not interact and
the model follows one. A filter may claim a symbol its text lacks, and denies one
that the scanner does not find. `Indexed` are the versions in whose text it finds
the one looked for; of the others nothing is promised. A request that gets no time
for its file goes by `UNIX_EPOCH` (`Epoch`), an entry that all such requests share
whatever the text: it is followed, and what is answered from it is promised nothing.

### Session

`expanded` is the map of session.rs, from a definition to the time under which it
was shown. A call is a search that comes to one match (stat, `is_expanded`, read,
`record_expand`) or a grok (read, the work that may fail, `claim_expand` for a big
body, the second stat and `record_expand`, then the lone callee of a thin wrapper,
if it has one, by the same steps). Reading a file, asking its time and taking the
session's lock are steps of their own, so edits, other calls and `tool_session`'s
reset fall between any two. `Answer` delivers any part of what was rendered: the
budget cuts, and an abandoned call delivers nothing. History: `rendered`,
`delivered`, `misdated` (grok recorded a time that is not its text's), `inlined`.

### ConditionalRead

A file's content is a sequence of blocks, each known by the version that wrote it,
behind an inode with a modification time that a write may leave as it was (one
tick). Editors write in place, truncate, grow, rename a new file over the path,
remove it, or point a link elsewhere, between any two blocks of a capture. A
request has a snapshot of its own: `Lookup` finds a path as spelled or by its
canonical path, `Open`...`Accept` is one attempt, `StartOver` the second and the
end of it, `Overflows` the bound on the snapshot. A tag is the pair of request and
view, the digest being taken as injective. A client keeps the last tagged view and
may send its tag along. `lived`, `coarse` and `moved` are history: what was on the
disk during the request, whether a write went unseen by the clock, whether a link
moved.

### SearchWalk, Search

`SearchWalk` is one walk: threads take names in any order, admit a physical file
once (symbol and content walks), look at the shared count, search, count, and add
what they found under a lock: the count runs ahead of the list, and other threads'
finds are not seen until counted. The three kinds of walk differ in what they do
before they take a file on. What each name holds for each walk is a table: a file
opened under another name may be in another language. So is what a line scores
under each name (`Quality`): the name's extension decides what is a comment, and
the words of a query are counted over path and line together. A content walk cuts
a file's rows by their scores under the name it admitted the file by, whichever
thread's that was (`TopOfFile`).

`Search` composes walks into a request: scopes one after another, each failing or
searched under the gitignore policy in force, definitions and usages merged, the
best rows of a content scope kept, scopes merged by identity, ranked by stratum,
score, path and line, sliced by offset and limit, cut to a budget. A client asks
for one request, then follows the navigation to the next page, or asks again for
less when a page was cut. Meanwhile files grow older and lose their recency. The
two walks of a symbol search run side by side in the code; they share nothing
until both have ended, so the model runs them in turn.

## 3. Runs

| run | question | instance | result |
|---|---|---|---|
| `mcp_server` | Is the handshake right, does it give the pool, and does the ground move under a tool? | 3 calls, 2 slots, one root | holds, with liveness |
| `file_write` | What may a write overwrite, is it all or nothing, does it end? | 2 edits (2 spellings) and an append of one process, a whole-file write of another; 3 of the 4 under way or over | holds, with liveness |
| `edit_splice` | Is the file the one the batch means? | files up to 3 lines, 2 edits, 3 replacements | holds |
| `file_caches` | Are entries exact? | 2 threads, 2 writes, 4 requests, 5 paths, with a time and without | holds, up to a lost basename race |
| `outlines_exact` | Are outlines exact? | 1 thread, 1 write | **violated**: read before stat |
| `write_batch` | Does the answer agree with the disk? | up to 3 entries, 4 spellings (relative, absolute, through a linked file and a linked directory), root | holds |
| `never_two_writers` | Can two entries write one file? | up to 2 entries | **violated**: check on raw paths |
| `session` | Is a withheld body one that was rendered, and does one call show it? | 2 calls, a big body, a wrapper that delegates to it, 2 edits of each file, a reset | holds |
| `shown_earlier` | Does the client have what is withheld? | the same | **violated**: recorded before delivery, or under a later time |
| `reads` | Is a view true, of one version, and a tag whole? | 2 requests of up to 2 paths, one a link; 2 changes of the disk | holds |
| `search` | Are totals true, or at least lower bounds of one scope, pages slices, and is nothing skipped? | 4 names of 3 files, 2 overlapping scopes, 2 threads, 17 requests | holds |
| `lower_bound` | Is an incomplete total a lower bound? | the same | **violated**: one line counted twice |

Why the bounds suffice.

* A race of a handshake needs two threads and a witness: three calls let one be
  abandoned, one be refused and one use the returned slot.
* On one file, two edits of one process contend for the guard, and the third
  operation, an append or a whole-file write by another process, lets a rename win,
  lose and be overtaken. `MaxStarted` leaves one of the four out, whichever; a
  crashed operation does not count against it.
* Two writes let a cache entry be stale, then overwritten by an older one, and let
  the symbol go and come back; four requests let each of two threads fill an entry
  and be served from it.
* Two edits with three lines reach every relation of two ranges (before, touching,
  equal, nested) and growth in both directions. Three entries of a batch hold a
  repeated pair and a bystander; two directories and a link to one of them give a
  missing file two absolute spellings.
* Two calls and two edits of a file let a record be of a text before, between and
  after; a wrapper that delegates to the big body makes one call take both parts.
* Two requests let a tag be sent back; two writes let an attempt fail twice; a
  snapshot of three blocks is passed by two files of two.
* In `search` the requests are chosen (`MCRequests`): each is there for a case (two
  scopes with a link ranked differently in each, an alias in another language, a
  usage on a definition's line, two definitions on one line, a negative offset, an
  ignored file with the override on and off, a content page of one scope with the
  ignored file and of two scopes, a caller walk at its count and past a large file). Thresholds are 1 and
  pages of 2 rows, so quitting, several pages and cuts all happen; `Unlimited` is 99,
  where the tables hold far fewer matches.

`CHECK_DEADLOCK FALSE` is set where the system may really stop: a client that
sends nothing more, operations that have all ended, an answer that was given.

### The four disagreements

* `search/mod.rs:1398` reads the file before it takes its time, unlike every other
  path into the cache; the old outline is served until the next write.
* `mcp/tools/write.rs:246` looks for duplicates in the paths before they are
  anchored under `root`; the module's doc (10-11) promises that two entries never
  race on one file. Two absolute paths race as well when the file is not there and
  one leads through a linked directory, since each is then its own key
  (`edit.rs:387`): both entries write the new file. `AbsolutePathsNeverRace` says
  that absolute paths meet nowhere else.
* `search/grok.rs:846` (and 1748-1754) records a body under a time asked after the
  text was read, and every path records it before the answer is cut or lost;
  `README.md:349` (repository) speaks of a definition "that was already expanded",
  whose body the agent has received.
* `search/merge.rs:161` counts a line as a usage in one scope and as a definition
  in another when a walk quit early; `README.md:74` (repository) says incomplete
  scans report lower bounds. Of one scope it is so (`LowerBoundInOneScope`).

### Observations

Smaller things met while modelling, where a comment says more than the code does;
no run is about them.

* `timeout.rs:233` compares with `==`, but the counter goes down again: the warning
  the doc (24-27) promises once is printed whenever the threshold is met anew.
* Only a range's two ends are hashed, with 12 bits (`edit.rs:154-183`): an inner
  line may have changed, where `README.md:492` promises a rejection.
* The name under which a file is admitted decides its language, and which name
  comes first is up to the walk: identical requests can differ, where
  `search/symbol.rs:167` says ranking stays stable across pages. The properties of
  `Search` therefore speak of requests without such a file (`Plain`).
* What a line scores depends on the name its file has (`search/rank.rs:436-446`,
  466-502), and the rows of a file that a content search keeps are the best under the
  name that was admitted first (`search/content.rs:239`). With `tool.py`, a link
  `tool` to it, line 3 `# needle` and line 10 `needle = 1`, a page of one row shows
  line 10 when `tool.py` comes first, where the two tie over both names and line 3
  ranks first; when it comes first on the next page too, line 10 is shown again
  and line 3 never. `search/content.rs:234-236` and 250-254 say that nothing displayed
  changes. `PageIsSlice` and `NothingSkipped` require that the names of a file order
  its rows alike (`SameOrder`).
* A content search of several scopes cuts each scope with ties in the order of the
  path preferred there (`search/content.rs:250-276`, `search/rank.rs:85`) and ranks
  the union by the path preferred over all scopes (`search/merge.rs:216` and 284).
  A linked file that the two list under different names, tied with a row of another
  file, can have that row skipped between two pages and another shown twice. The
  counterexample came from TLC while the paging proofs were prepared; `PageIsSlice`
  and `NothingSkipped` require that no tie is of such a file (`Undisputed`).
* Ranking reads the clock (`search/rank.rs:567`), where line 21 calls it
  deterministic: a file that leaves a recency tier between two pages can move a row
  past the client. The properties require that no file aged.
* Two definitions on one line tie in every key and come in the order of a hash map;
  across pages one can be shown twice and the other never (`Tied`).
* The caller walk does not know links: a call site counts once for each name.
* The filter's scanner drops what follows `//` in every language
  (`index/bloom.rs:206`), so the rest of a Python line after a floor division is
  denied at any time, where `index/bloom.rs:49-50` says definitely absent.
  `FalseNegativeNeedsWrite` speaks of what the scanner finds.
* Where the time of a file cannot be had, the caches are asked under `UNIX_EPOCH`
  (`search/mod.rs:1402`, 1872, `read/mod.rs:199`): all such requests share one
  entry, which no write makes stale.
* An edit asks for its guard by the path's key of that moment (`edit.rs:33`, 387).
  One that asks while the file is not there gets a guard of its own; if another
  edit's rename then brings the file back, two edits of one process write under two
  guards and one can be lost. `NoLostEdit` speaks of edits with one (`OneGuard`).
* A create or an append that fails after its first byte leaves what it wrote
  (`mcp/write.rs:46`, 105) and is reported as failed, no more.
* An append takes no guard and no last look: a rename may leave it on an inode
  without a name. An edit that lost a race of renames may bring back what a third
  process's edit then drops; `NoLostEdit` is of two processes.

## 4. Fairness

`ToolTimeout` assumes weak fairness of the main thread and of the worker's steps
after its work: the operating system schedules runnable threads, and the clock
reaches the deadline. Nothing is assumed of the client or of the tool's work; the
specification of `McpServer` carries the same fairness. `SlotReturned` needs the
acknowledgement: without `AckTimeout` the worker spins for ever, which is the
mutant. `FileWrite` assumes weak fairness of each operation's steps: a thread
inside an operation is scheduled and its system calls return; waiting for the
guard is the only way it can be held up, and a mutex freed by its holder is what
the property is about. It has no strong fairness: two operations contend for one
guard once each. The other modules claim no liveness.

## 5. What is proved

All proofs hold for any values of the constants satisfying the named assumptions
(`CallsAssumption`, `LimitsAssumption`, `ReadersAssumption`, `OpsAssumption`,
`NamesAssumption`, `SessionAssumption`, `ReadAssumption`, `SearchAssumption`, ...),
which TLC evaluates on every run.

**McpServerProofs.** Of `ToolTimeout` first: `CountExact` is not inductive, since
that a worker about to decrement is still counted depends on where the main thread
was when the worker lost the compare-and-swap. `IInv` adds, for each call,
`Handshake` (which places of the worker and of the main thread each value of
`coord` and `acked` allows), what each stage of the main thread knows
(`MainHandshake`), and `Room` (a call is let in only while a slot is free). From
it: `TypeCorrect`, `CountIsExact`, `SpinCovered`, `WorkIsBounded` (the counted calls
and the one under way), and `ImplementsPoolSafety`, where each step maps to a pool
step or a stutter. Every server step is a thread step or leaves the threads alone,
so `IInv` carries over; with `Quiet` (no thread before the first tools/call) and
`Settled` (every worker was started where the server is) follow
`ServerTypeCorrect`, `GroundIsHeld` and `ServerCountExact`.

**EditSpliceProofs.** The batch means one line at a time, the code works one edit at
a time, first upwards and then downwards. `Kept[n]`, the meaning of the first n
lines, joins the two. When the top m edits are still to splice, the file down to the
m-th gap is as it was read, and from there on it is what Kept adds after it
(`SplicedTo`); when the top p edits have been echoed, the offset is how much longer
Kept is than the lines it stands for (`EchoedTo`), so the p-th replacement begins
where the echo says. Both rest on the order: `ByStart` holds every edit once and is
sorted (`ByStartSorts`, a bijection by counting), neighbours that do not collide
make all ranges lie apart (`RangesApart`), so every line is in one range or in one
gap (`EditedLine`, `PlainLine`) and Kept crosses a range by its replacement
(`KeptRange`) and a gap by its lines (`KeptBetween`). These go over any number of
lines by induction on a set of numbers (`NatSetInduction`, from the least element of
its complement), which needs no operator as a parameter. Hashes play no part: what
is spliced is right for the batch as sent, also where a collision let it through.

**FileCachesProofs.** Exactness speaks of the present time only and is not kept by
a write. What every step keeps is an order: the text behind an entry, or carried
by a reader, is not older than the time it is or will be stored under
(`EntryOrdered`, `ReaderOrdered`), because the time was taken first. `raced` marks
the path on which this fails. `HolderKnown` is needed for the types: without it
a new request could seem to be inside a cache. A text read by a request without a time
is put under `Epoch`, which is no file's time, so it needs no order. From it follow
exactness of parses, filters and (unless raced) outlines; and of the requests that
had a time, `NothingOlderThanRequest` and `MissesNeedWrites`: where a
filter denies what the scanner finds in the request's text, the file was written
since the request began.

**FileWriteProofs.** That a refused edit left no trace is known only from where its
text can be: until its rename it is in its own inode, which has no name and which
nobody has open (`Unpublished`); half of a replacement is nowhere to be seen
(`PartsHidden`). `InWindow` says that between its last look and its rename an edit
holds what the file shows unless the file has changed since, so a rename that
nothing raced loses nothing (`OnlyTheWindowLoses`, an action property).
`NoLostEdit` needs `TwoEditors`, that at most two processes make edits. With three
it is false: an edit x of a second process takes its last look while the file shows
edit e, a rename of the third drops e, an edit w of e's process takes its last look, x renames
and brings e back, w renames and drops it. With two this cannot be, since two edits
about to publish have never seen different histories of one process: each carries
what the other has of its own process (`Carries`), because the second of them to
take its last look found in the file all that the first carries. It rests on the
guard (`GuardHeld`: no two holders have one), on the edits having one guard
(`OneGuard`, which an action can break and none can restore, `OneGuardStays`), and on
a file written anew failing every anchor (`WrittenAnew`): an append and a whole-file
write are otherwise free (`TwoEditorsLoseNoEdit`).

**WriteBatchProofs.** `Sources` says where each entry's text, or a piece of it, may
be on the disk, `StillThere` that an applied write goes only by another entry's
write to the same file, `OldKept` that what was there goes only by a replacement,
`Untouched` that nothing is written before something is reported. When every path
is absolute the up-front check leaves no two entries with one key on the disk as it
was (`Distinct`). A file that was there has one key however it is reached, and a
hash edit needs one that was (`OldLines`); one that was not has a key for each
spelling of its directory: only there, and only through a link, do two entries meet
(`AbsolutePathsDoNotRace`).

**SessionProofs.** A stub is written when a record carries the time in hand, so
everything rests on what a record says (`Recorded`): the body was rendered at that
version or later, or a grok misdated its text. A search dates the text before it
reads it, a grok after (`Dated`); a grok that was told the body is known records it
again, under a time later than the claim's (`InHand`). For `OneGrokClaims`, a big
body that was claimed is recorded while its file is as it was (`Claimed`).

**ConditionalReadProofs.** While no link moves, the snapshot holds under a name
what it holds under the name's canonical path (`FilesAgree`, `KeyIsNew`), and the
pages are of it (`PagesAgree`): `FilesAreReadOnce`. That a capture was on the disk
rests on the time before and after the read: while it stands, the inode holds what
it held when it was opened, and the path led to it then (`GotSeen`, `PagesSeen`):
`ViewsWereOnDisk`. `TagsAreComplete` follows from `Complete`: without a mark of
incompleteness there is a page for every path.

**SearchProofs.** A total is called exact when every walk was complete, so the
proof follows what a walk has at each moment (`NothingLost`): every name is
waiting, in a thread's hands or noted, and every file that was admitted is in some
thread's hands or has its rows in the list, unless the walk has said that it left
something out or a thread has quit; and a thread quits only with such a word, or in
a caller walk with the count at its limit, which the walk looks at again in the end
(`QuitKnown`). When the threads have joined nothing is in hand, so a complete walk
has brought what it could (`SymbolWalkEnded`, `ContentWalkEnded`,
`CallerWalkEnded`); that a content walk keeps only the best rows of a file costs no
file (`BestIsKept`). `RowsKnown` carries this from scope to scope, through the
merge of definitions and usages (`SymbolRowsEnded`), and `LedgerIsCertain` counts
the ledger of a content search. When a walk stopped early, a usage counted where a
definition was not seen takes that definition's place, and no two take one place
(`BoundKnown`, `RowsArePossible`): the total of one scope is a lower bound
(`LowerBounds`).

Paging is the second half. A page is defined by a count (a row's position is the
number of rows ahead of it), so first come the facts of any ranking: `Ahead` is a
strict total order of finitely many matches, positions are the numbers below their
number (`RankingOrders`), and a page is a range of them (`SliceIs`). A code page is
collected by walks that keep little: the best rows of a file, the first rows of a
scope, the union of the scopes. Each cut leaves the positions that the page needs
as they were (`TopOfFileIsEnough`, `ContentScopeEnded`, `MergeKeeps`), provided a
row has in the union the score it has among all sightings (`Best`), which
`Gathered` says of the rows taken over so far. A walk cuts a file's rows by their
scores under one name and the ranking goes by the best over all; with `SameOrder`,
of two rows of a file the one that is ahead under any name is ahead in the best
(`BetterIsAhead`). `Untiring` says that the walks of a
paged search have no count to stop at, which is where `Unlimited`, more than there
is to find, is needed. With these an exact answer is the slice of the one ranking
of everything (`PagesAreSlices`). A client's screen is then followed page by page:
`Behind` says that every untied row before the offset has been shown, `Told` that an
uncut answer offers the offset where its rows end, or none when nothing is left, and
`Thorough` that a page is of everything unless a scope failed
(`PagingSkipsNothing`).

The assumptions on the tables: what a content search finds in a file does not
depend on the name it is opened by (what a row scores does), and comes in the order
of its lines; a usage is a line; two paths are not equal, so they rank apart, and so are two names of one
file when one is preferred; `usize::MAX` is more than any walk can find.

Only model-checked:

* liveness (`SlotReturned`, `EveryWriteEnds`, the liveness of the pool): the prover
  does not reach liveness under fairness and ENABLED.

Every other property of a passing run is stated by a theorem. `PageIsSlice` and
`NothingSkipped` are proved as they are checked, hypotheses included: no file aged
between pages (`calm`, `steady`), every file is of one language under all its names
(`Plain`), no tie is disputed (`Undisputed`), and the names of a file agree on the
order of its rows (`SameOrder`).

## 6. Not modelled, and why

* **Outlines, languages, trace, callees, classification, parse check**: pure functions of
  text over tree-sitter grammars, which are outside; no state, one actor.
* **Structural diff**: runs git once, parses its output and pairs symbols in fixed
  phases; sequential, and its difficulty is in the data.
* **Map, overview, listing, glob, similarity, facets, projections, suggestions**:
  formatting and scoring of results at hand, beyond the cache and the merge that
  are modelled.
* **Breadth-first callers**: hops over complete walks; each hop is the walk that is
  modelled, without the early quit.
* **Session's counters**: shown, never decided upon. The order in which `reset`
  clears them is not visible to any decision.
* **File-system detail**: permissions, the making of parent directories, links under
  `FileWrite` (`WriteBatch` has those to files and to directories), LF against CRLF,
  two writes in one tick under the caches.
* **Command line, installer, npm wrapper, scripts**: one sequential command each,
  over the parts above. Vendored and generated code is not the program's.
