# A verification development of libtp3

libtp3 is a C library for the TTAP3 protocol between a greenhouse operating
system (GOS) and greenhouse controllers (GCG).  This directory holds TLA+ models
of it, configurations that check them with TLC on small instances, and proofs
checked by TLAPS.  Names in the models are the names of the code.

## The system

A process links the library and calls it from its own loop.  The library has no
thread, no socket and no timer: it builds messages, turns them into frames and
back, keeps the callback table, and keeps sets of nodes with their devices.
The concurrency is that of the processes on both ends of the wire, whose frames
are delayed, lost, repeated and reordered by a transport the application
chooses.

| Component | Source | State | Operations | Interaction |
|---|---|---|---|---|
| Node sets | `ttap3_util.c:229-465` | `tp3_nodedata_t` (four arrays), `tp3_nsetdata_t` (three parallel arrays, `numofnode`, `numofdev`) | `tp3_initnodedata`, `tp3_setdev*`, `tp3_releasenodedata`, `tp3_initnset`, `tp3_addnset`, `tp3_updatenset`, `tp3_delnset`, `tp3_setnodestat`, `tp3_releasenset` | structures are handed over by shallow copy: the set becomes the owner of the arrays |
| Reports | `ttap3_util.c:467-623`, `ttap3_gcg.c:110-167`, `ttap3_gos.c:78-141` | none | `tp3_nsettoarray`, `tp3_addfield_nsetdata`, `tp3_notify*msg`, `tp3_readfield_array`, `tp3_parse_*msg` | the GCG reads a node set once per array; the GOS pairs the arrays up by position |
| Exchange | `ttap3_process.c`, `ttap3_gos.c`, `ttap3_gcg.c`, `ttap3_base.c:523-545,708-752` | `gosdata`, `gcgdata` (static), `registedfuncs` (one per process), `msgseq` counters | `tp3_initgos`, `tp3_initgcg`, `tp3_registcbfunc`, twelve request builders, `tp3_response`, `tp3_setresponse`, `tp3_isok_gos`, `tp3_acceptmsg`, `tp3_defaultconfirm`, `tp3_defaultresponse` | both parts share the callback table; `tp3_response` calls the application back |
| GCG node data | `ttap3_gcg.c:21-65` | two node sets, of sensor and of actuator nodes | `tp3_updategcgnode`, `tp3_set*nodestat`, `tp3_releasegcg` | chooses the set of a node by its type |
| Message fields | `ttap3_base.c:371-599` | `tp3_message_t`: a growing array of fields that own their data | `tp3_addfield*`, `tp3_extendfields`, `tp3_readfield*`, `tp3_releasemsg` | every builder and every parser |
| Frame codec | `ttap3_base.c:59-369` | none | `tp3_generateframe`, `tp3_parseframe`, checksum, field lengths | between message and wire |
| Stream reader | `ttap3_base.c:26-57` | the caller's buffer | `tp3_readframe`, `tp3_writeframe` | bytes arrive in pieces |
| History blocks | `ttap3_util.c:693-958` | `tp3_block_t`: devices by items with timestamps | `tp3_initblock`, `tp3_nextemptyblockitem`, `tp3_setblockitem`, the field codecs | answers to history requests |
| Profiles and attributes | `ttap3_util.c:23-214` | structures | `tp3_addfields_*`, `tp3_readfields_*` | answers to profile requests |
| Timestamps and intervals, device ids, printing, memory wrappers | `ttap3_util.c:216-227,625-691`, `ttap3_base.c:601-706`, `util/mem.c` | none | conversions and output | - |

What is hard, component by component, and what makes it correct:

- **Node sets**: long sequences of registering, replacing and deleting nodes,
  with one of seven allocations failing anywhere.  The three arrays stay
  parallel, an id is held once, every block has one owner and is released once,
  `numofdev` is the sum over the nodes.  As a whole: a map from ids to nodes.
- **Reports**: position *k* of every array is about the same device, and what is
  read is the registry.
- **Exchange**: requests and responses cross; processes start again while
  frames are on the way; a GOS changes the list of GCGs it accepts; both parts
  may live in one process.  A GOS approves only the GCGs of its list, a response
  is paired with its own request, answers are not answered, every request is
  answered.
- **GCG**: a report read at the other end is what both sets held when it was
  made, after any updates.
- **Fields and codec**: no field data is released twice, and lost only in known
  places; the four functions that decide whether a field is an int or an address
  agree, short texts excepted; a frame fits the buffer estimated for it; parsing a generated frame
  gives the message back, and a damaged frame gives nothing.
- **Stream reader**: the frames read are the frames written, however the bytes
  are cut, and each is read in the end.
- **Blocks**: a row is taken once and keeps what was written to it; writer and
  parser agree about every offset.

## Modules

| Module | What it is |
|---|---|
| `NodeRegistry` | abstract: a map from node ids to status and devices |
| `NodeSet` | `tp3_nodedata_t`, `tp3_nsetdata_t` and the memory they own; implements `NodeRegistry` |
| `NodeExport` | extends `NodeSet` with the reports: their arrays and their parsing |
| `MCNodeSet` | constants and symmetry for TLC |
| `NodeSetProofs` | TLAPS proofs about `NodeSet`, its refinement of `NodeRegistry` included, and about the reports of `NodeExport` |
| `Exchange` | processes, callback table, headers, the transport, `tp3_response` |
| `MCExchange` | constants and symmetry for TLC |
| `ExchangeProofs` | TLAPS proofs about `Exchange` |
| `Bytes` | bytes, and numbers high byte first |
| `FrameQueue` | abstract: a queue of frames |
| `Stream` | `tp3_writeframe`, `tp3_readframe` and the bytes between them; implements `FrameQueue` |
| `MCStream`, `StreamProofs` | frames for TLC; TLAPS proofs about `Stream` |
| `Message` | the memory of messages and frames, through `tp3_response` |
| `MCMessage`, `MessageProofs` | symmetry for TLC; TLAPS proofs about `Message` |
| `Fields` | the values of fields: codes, lengths, adding and reading |
| `Codec` | extends `Fields` with `tp3_generateframe` and `tp3_parseframe` |
| `Contents` | extends `Codec` with timestamps, intervals, profiles, attributes and the requests |
| `History` | extends `Contents` with `tp3_block_t` being filled, and its codecs |
| `Gcg` | extends `Contents` with the node sets of a GCG, its reports and their parsing |
| `Transfer` | composes `History` and `Gcg`: a message on its way from one application to the other |
| `MCTransfer` | contents of every kind for TLC |
| `Recursion` | lemmas for the proofs: induction over numbers, sums, concatenations |
| `CodecProofs` | lemmas about `Fields`, `Codec` and `Contents`: what each function makes |
| `TransferProofs` | TLAPS proofs about `Transfer`, with `History` and `Gcg`: what each step preserves |
| `ReadBackProofs` | TLAPS proofs that what arrives is what was sent: contents, reports, blocks, attributes |

### NodeSet and the code

A `tp3_nodedata_t` owns `gids`, `stats`, `envs` and `attrs`, which are always
allocated and released together; they are one *block* here, and `heap` maps
every address to its content or to `Free`.  The four are told apart only where
they can part: `InitNodeFail` has any of the four mallocs of
`tp3_initnodedata` fail, some or all; `FreedOnFailure` is what the code frees
then, and `LeftOver` what would stay allocated of the others.  The structure
keeps its `numofdev` and pointers that are null or dangle.  Handing a node over copies the
structure: the application's variable and the slot then name one block.
`app` is the application's variables; `"own"` means it has to release or hand
over the structure, `"lent"` that the set owns the block and the application
only remembers the structure (it may still set values through it, as the
tests do).  `arrays` is `"null"` after a `memset`, `"live"`, or `"invalid"`:
freed by `tp3_releasenset`, which leaves the pointers as they are, or half
moved by a failed `realloc` (when several of the three fail, the `else if` chain
of `ttap3_util.c:399-405` frees the first of them only; the arrays themselves are
not in `heap`).  `fault` records that freed memory was used or
freed; a behaviour is not followed past one, since anything may happen then.

`Replace`, `AddNew` and `Delete` are `tp3_updatenset` in its three cases, and
`AddNew`, `AddExisting` and `Delete` also `tp3_addnset` and `tp3_delnset` called
directly.  `Moved` is the swap with the last slot, `IsIdx` the search for the
first slot with an id.  Attribute values of devices are written by
`tp3_setdevattr` and read by nothing, so a block does not keep them.

Assumptions about the application are two constants.  `AllocFails` says which
allocations may fail, `Misuse` which calls outside the documented protocol it
makes: handing a structure over twice, initialising a set that holds nodes,
calling on after a release or a failed growth, and using, releasing or handing
over a structure whose arrays could not be allocated (`"failed"`).  With `Misuse = {}` it follows
the header: what was handed over belongs to the set, and a structure whose
block the set released is forgotten.

### NodeExport and the code

`Cursor` is the pair (`pdev`, `j`) of `tp3_nsettoarray`'s loop as a recursive
function; `DeviceArray` gives what the loop leaves in the array, with `Uninit`
for elements nobody wrote and `Crash` for those read through a null pointer or
past the last node.  `Report` is what `tp3_notifystatmsg` and
`tp3_notifyenvmsg` add for one set, and `Parse` what the GOS reads into arrays of
`len` elements, with its error returns.  Sensors and actuators differ in the code
only in their field codes; their bytes on the wire are `Gcg`'s and `Transfer`'s.
`ReportRead` speaks of states in which the set's memory is in order
(`Exporting`): a set that was released or whose blocks were freed behind its
back has nothing to report.

### Exchange and the code

Every process has `gosdata`, `gcgdata` and one table `funcs`; a process in both
`GosProc` and `GcgProc` plays both parts with one table, as
`test/test_gcgngos.c` does.  `InitGos` and `InitGcg` set data, counter and the
*whole* table.  `Build` is a builder's header (`tp3_setheader`, `msgseq++`) and
the sending of the frame; `BuildFail` a builder that fails after the header,
when the number is used up.  `Response` is `tp3_response`, with the callbacks as
`Outcomes`; on an error nothing is sent.  `net` only grows, so that a frame may
arrive late, out of order, many times, or never (a frame whose checksum fails is
one that never arrives).  `AppRequest` and `AppNotify` are the message types
that have no builder: three-step requests and notifications, whose headers the
application sets itself.

`_TP3_MSGSEQ_MAX` (999999) is the constant `SeqMax`.

A model frame carries three things the wire does not: its ends, the exchange `n`
it belongs to, and `at`, the initialisation of the process whose `tp3_response`
made it.  No action tests `n` or `at`; they are there for the properties.

Assumed: the list of GCGs given to `tp3_initgos` has at most `_TP3_MAX_GCG`
entries.  The function copies as many as it is told (`ttap3_gos.c:34`), and a
longer list overwrites what lies behind.

Left out: all fields but the header's, which are `Transfer`'s; identifiers wider than the header's three
bytes (`ttap3_base.h:83-84` says 20 bits).  Which response the application takes
for which request is its own business; the property compares what the header
offers (`Fits`).  A request that arrives twice is handled twice: the library
keeps no record of numbers seen, and `TP3_RC_DUPMSGSEQ_ERR` is never produced.
The GCG checks no identifiers: `tp3_isok_gcg` is called by nobody.  An
application answers for a part only after it has initialised it; before that,
`tp3_response` calls through a null pointer.

### Stream and the code

`out` is the bytes written, `arrived` and `taken` are how many of them the
reader has been given and has consumed.  `Arrive` delivers any number of bytes,
so that frames are cut anywhere.  The reader calls `tp3_readframe` again when it
has as many bytes as the last result said were missing, as `ttap3_base.h:201`
describes it; `ReadPrefix`, `ReadPart`, `ReadBad`, `ReadNoMemory` and `ReadWhole`
are its five returns.  A frame too short for a header is *stuck*: the result is
negative at every call, with all its bytes there.  `FrameQueue` has the same
frames stay in the queue for ever; `ImplementsQueue` therefore promises that
everything up to the first of them is read.

### Message and the code

A message is the block of its field array, the array's size and number of
fields, and the set of blocks its long fields own; which field owns which does
not matter for who may free what.  `Added` and `AddedCopy` give the possible
outcomes of adding a field to a message while a set of blocks is allocated;
`Extended` is `tp3_extendfields`, whose failure `tp3_addfield` does not look at:
the field is written behind the array, which is a fault, and counted.  `call` says where the program is: in the
application, in the loop of `tp3_parseframe` or in the callback of
`tp3_response`; parsing takes one step for each field, because each may fail.  A frame is refused
at once for its checksum (`StartParse`, `Response`) or later, at a foreign
interface string, after fields were added (`AbortParse`); then `tp3_response`
returns without releasing the request.
A message nobody will look at again is not `live`.  The callback may add fields,
set the response any number of times (`SetResponse` is `tp3_setresponse`, which
begins with `tp3_initmsg`), and then fail or succeed.  `AllocFails` says which
allocations may fail; if the array of fields is among them, `NoFault` does not
hold (`tp3_addfield` writes behind the array), and neither run nor theorem about
it includes that.

### Fields, Codec and the code

A field is its code, its length and its data: four bytes of an int, or a copy of
all its bytes.  A frame is a sequence of chunks - code, 16-bit length, bytes -
and two digits; `Flat` gives its bytes, of which the checksum is the parity of
each bit.  `FieldLen` is `tp3_getfieldlen` with its tables.  Its table `header`
has eight entries, and every response carries the code 8: `PastHeader` is what
is found behind.  In the layout of the library's own build (no optimisation) it
is the 1 that begins the table `gprof`, and the runs use that; other compilers
put 0 or anything else there.  `FieldsAssumption` takes it from 0 to 3.  With 0 a
response code is a text of one byte that is kept by value, and
`tp3_generateframe` takes its int for an address: every response is lost, in the
way `FaultsKnown` names.  With 4 the function would write four bytes where the
length, and the estimate of the buffer, say one; that is left out.

`FieldChunk` computes the length of a field as the code does, in 16 bits and for
an array from the length of its ints; the bytes written are as many as this
length says (`FieldBytes`).  A field longer than 65535 bytes would be cut
silently to what is left of its length modulo 65536 (`ttap3_base.c:209`), without
an error on either side; `Fitting`, `Entries` and `Sendable` leave out texts,
lists and blocks of that size (a block of 112 rows with 32 devices of each kind
exceeds it), and nothing else.

`ReadAsAddress` says when `tp3_generateframe` takes the union of a field for an
address, `Mistaken` when that is not what the field keeps there, and `Overflows`
that an array has more items than the parser has room for.  The program is lost
at either: `Transfer`'s stage is then `"crashed"` for good.  `Stack` is a byte of an int nobody wrote.

### Contents, History, Gcg and the code

A content is a sequence of entries, one for each call of a `tp3_addfield`
function; `Put` adds one to a message, `Taken` reads it at the other end.  The
request builders of `ttap3_gos.c`, the profile and the attributes are contents.
The readers of attributes are modelled with the structure they fill, since they
leave what they do not find as it was.

`History` has a block that is filled row by row (`cur` is `pcuritem`, an index
here) and what `tp3_addfield_statblock` and `tp3_addfield_envblock` make of it.
The parsers are written with the code's own offsets, not derived from the
writers.  The caller is assumed to write no more devices of a kind than it
announced and to begin no more rows than there are: neither is checked by the
code.

`Gcg` keeps the two node sets by value: nodes in the order of their arrays, and
`numofdev`, which is a counter of its own, updated by differences.  Their arrays
and memory are `NodeSet`'s.  Nodes may have no devices.  `tp3_nsettoarray` does
not step over those in front of others (`Gaps`): it reads through their null
pointer (`ReadsNull`), unless the first node is one of them, when it writes
nothing and the list is what was on the stack (`DevList`).

### Transfer and the code

One message at a time goes through `Send...`, `Generate`, possibly `Damage`, and
`Parse`, to be read and released.  `Send` keeps in `sent` what the application
put in, for the properties; no later action reads it.  `Damage` changes a byte of
a field, of its length, of its code or a digit of the checksum.  Between messages
the block is filled or the GCG's nodes change, so that blocks and reports are
sent in every state of theirs.  Making a report that reads through a null
pointer, making a frame of a field that is mistaken for an address and parsing a
list that is too long end in the stage `"crashed"`.

## Runs

| Run | Checks | What it shows |
|---|---|---|
| `node_set_memory` | `DistinctIds`, `NoFault`, `Ownership`, `NoLeak`, `DevCount`, `ImplementsRegistry` | an application that follows the ownership rule: memory safety, and the arrays implement the map |
| `node_set_misuse` | `TypeOK`, `ReportRead`, `LossOnlyWithSet` | every allocation may fail, any of a node's four included, and every misuse happens: node memory is lost only where the set fails to grow or is cleared, and as long as a set's memory is in order a report says what it holds |
| `node_set_growth` | `CountsNodes`, violated | see Findings |
| `exchange_approval` | `ApprovalSound` | a GOS that is re-initialised with other lists while requests are on their way |
| `exchange_answers` | `AnswerMatches` | late, repeated, reordered responses, both ends initialised again, `msgseq` wrapping |
| `exchange_live` | `TypeOK`, `EchoesRequest`, `RequestAnswered` | one-, two- and three-step exchanges at once |
| `exchange_shared` | `ApprovalSound`, violated | see Findings |
| `stream` | `TypeOK`, `ReadInOrder`, `AsksForThisFrame`, `ImplementsQueue` | frames cut anywhere, failing mallocs, short buffers, a frame without a header: a queue |
| `message` | `TypeOK`, `NoFault`, `Ownership`, `LossOnlyAt` | messages and frames of an application and of `tp3_response`, with failing allocations and frames refused at any field: memory is lost in six ways |
| `transfer` | `TypeOK`, `FitsBuffer`, `LengthsTold`, `FaultsKnown`, `ReadBack`, `DamageRefused`, `SmallAttributesRead`, `HistoryRead`, `ReportArrives`, `RowsKept` | contents of every kind on their way from application to application, texts, lists and nodes the program is lost to among them |
| `transfer_attributes` | `AttributesRead`, violated | see Findings |
| `transfer_texts` | `TextsSent`, violated | see Findings |

### Bounds

- *Node sets.*  Three ids and three slots: deleting the first, the middle and
  the last slot are different cases of the swap, and a fourth adds none.  Three
  blocks hold two registered nodes and the one that replaces another, or three
  of which one is replaced by a node without devices; nodes without devices take
  no block, so that all slots are in use in either case.  Two
  structures let one be handed over while the other is remembered.  Device lists
  are empty or of one device in `node_set_memory`, which asks who owns the arrays
  and not what is in them, and of one or two in `node_set_misuse`, where the
  cursor has to pass from device to device and from node to node; there two nodes
  with two statuses each, and as many of each device, tell values that were mixed
  up, and one structure is enough: handed over twice it is in two slots.
  `CHECK_DEADLOCK FALSE`, because a fault ends the program.
  Nodes, structures and addresses are symmetric: no definition
  orders them (slots are numbers and are not permuted).
- *Exchange.*  `MaxInit` and `MaxReq` bound initialisations and requests and
  stand in the guards, so that a behaviour ends: these configurations say
  `CHECK_DEADLOCK FALSE`.  `SeqMax` is 2 (999999 in the code: what matters is
  that a counter passes it, and three requests do).  Two identifiers for each
  end give a right and a wrong one.  One GOS and one GCG suffice for
  `ApprovalSound` and `AnswerMatches`, whose proofs are for any number.
- *Stream.*  `MaxSent` frames (3) of one, two and five bytes, with `HeaderLen` 2: one
  is shorter than a header, one exactly a header, one ends like the length of
  another frame.  `CHECK_DEADLOCK FALSE`: when all is
  written and read, and behind a stuck frame, nothing more happens.
- *Message.*  Six blocks, arrays that grow by two (10 in the code) and at most
  three fields (`MaxFields`): an array has to grow once.  Blocks are symmetric.
  `CHECK_DEADLOCK FALSE`, because lost blocks use up the addresses.
- *Transfer.*  Two headers, one with the largest identifiers and a number above
  `_TP3_MSGSEQ_MAX`; about thirty contents with the boundary values of their
  widths (65535 in two bytes, 2^24 in three, intervals around minutes, hours and
  99 hours).  `MaxItem` is 4 (256 in the code) and `MaxDevices` 2 (32); lists
  have up to three items, and one has five, too long for the parser.  One
  profile has a text of three bytes, too short to be written.  Blocks have two or three rows; `SendHistory` happens
  after every step of filling one.  Two node identifiers and three device lists,
  of none, one and two devices, each in both sets: every count grows and
  shrinks, and a node without devices is alone, behind and in front of another.  Histories
  and reports go with one of the headers.  A damaged byte differs in its lowest
  or its highest bit (`Noise`), and damage is done to requests, profiles and
  attributes, whose frames have chunks of every kind.
  `SendContent` happens only with no block and no GCG, and block and GCG
  exclude each other: they share no state.  `CHECK_DEADLOCK FALSE`, for
  `"crashed"` is final.

### Fairness

`FairSpec` adds weak fairness of `Respond(p)` for every process: the process
goes on reading frames and handing them to `tp3_response`, which is what the
receive loop of an application is for.  A frame that was sent is therefore
received in the end (it may be late or repeated, not lost for ever).  Nothing
else is fair in `Exchange`: no request, initialisation or registration has to happen.
Fairness is of *some* response: the frames of a run are finitely many, and a
response that was already sent is a stuttering step, so that no frame is starved
by answering another for ever.

## Proofs

`NodeSetProofs`, for every set of ids, addresses, structures and device lists:

- `TypeCorrect`, `IdsDistinct`: `TypeOK` and `DistinctIds`, with every
  allocation failing and every misuse.  The two are inductive together; the
  slots of a set that is not live are empty, which is what makes a failed growth
  harmless to the types.
- `MemorySafe` (`NoFault`), `MemoryOwned` (`Ownership`), assuming `Misuse = {}`;
  `MemoryKept` (`NoLeak`) assuming also that no `realloc` of `tp3_addnset`
  fails (its failure path does lose the nodes' blocks).  `NoFault` says nothing
  about who owns what, so it is not inductive: the invariant `OwnInv` adds that
  every block named by a slot or a remembered structure is allocated, and that
  slots name different blocks and none that the application owns.  `Grown`,
  `Moved`, `Released` and `Forget` get lemmas of their own.
- `LossConfined` (`LossOnlyWithSet`), again with every failure and misuse: by
  cases on the calls.  What `tp3_initnodedata` took before a malloc failed is
  given back because `FreedOnFailure` is all four arrays (`LeftOver` is `{{}}`); a
  block that leaves a slot is freed, or the application's; a set that fails to
  grow or is cleared loses what it owned, and nothing else.

`ExchangeProofs`, for every set of processes, identifiers, types and callbacks:

- `TypeCorrect`: `TypeOK`, with `TableSet` (no null function in the table of an
  initialised process) because the type of a response depends on which functions
  can be called.
- `ResponsesEcho` (`EchoesRequest`) and `ResponsesMatch` (`AnswerMatches`),
  assuming no callback is `"quiet"`.  `AnswerMatches` follows from `FramesTell`:
  the header of a frame determines the counter, the opener and the number modulo
  `SeqMax` of its exchange; the rest is arithmetic (`SameSeq`: two numbers with
  one remainder are equal or `SeqMax` apart).
- `ApprovedOnly` (`ApprovalSound`), assuming no process is a GOS and a GCG:
  the table of such a GOS keeps the functions `tp3_initgos` registered
  (`GosTable`).  `exchange_shared` shows that the assumption is needed.

`StreamProofs`, for every set of frames, header length and buffer:

- `TypeCorrect`, `FramesInOrder` (`ReadInOrder`), `AskedFor`
  (`AsksForThisFrame`) and `QueueRefined`, the safety part of `ImplementsQueue`.
  The invariant says where in the bytes each frame ends and that between two ends
  there are the four bytes of its length and its data; `WordRoundTrip` says those
  four bytes are read back as the number, which needs frames shorter than 2^31.

`MessageProofs`, for every set of blocks, array step and number of fields:

- `TypeCorrect` and `OneOwner` (`Ownership`), whichever allocation fails.  They
  are inductive together; no message counts more fields than its array has room
  for until that array could not grow, which is a fault.  The lemmas `ExtendedKept`, `AddedKept` and
  `AddedCopyKept` say that whatever adding a field does to one message, it takes
  fresh blocks and frees only that message's; `OneMessage`, `OneFrame` and
  `TwoMessages` turn that into the invariant for the others.
- `Safe` (`NoFault`), if the array of fields can always be allocated: follows
  from ownership, action by action.
- `LossKnown` (`LossOnlyAt`), whichever allocation fails: the six ways of
  `LossyCall`.  Ownership does not
  say that a message made anew had nothing to lose; `Idle` (what is not live
  owns nothing, and `tp3_response` has messages only while it runs) and
  `OutFree` (the frame it is to fill is empty) do.

`NodeSetProofs` also has, for `NodeSet` and `NodeExport`:

- `RegistryImplemented` (`ImplementsRegistry`), assuming
  `Misuse = {}` and that no `realloc` of `tp3_addnset` fails (its failure path
  loses the whole set, which no map does).  The refinement maps an id to
  what the first slot that holds it says (`Entry`).  `RefInv` is ownership,
  `DistinctIds` and `WellFormed` (a structure's arrays are as long as its
  `numofdev`); from it follows `MapAgrees`: any slot of an id tells the entry,
  and an id is absent exactly when no slot holds it.  Each operation then is a step of
  the map: `AddNewRefines`, `ReplaceRefines`, `DeleteRefines` (the slot that
  moves keeps its entry), `SetDeviceRefines` (a value set through a remembered
  structure changes the one node whose slot shares its block), and so on.
- `DevicesCounted` (`DevCount`), with every failure and misuse: `DevInv` says
  `numofdev` is the last of the running sums over the slots; each step that
  writes a slot changes that sum by the difference of two counts (`SumsOfStep`).
- `ReportsTold` (`ReportRead`), assuming no node is without devices
  (`<< >> \notin GidList`; the code misreads those, see Findings; `ReportsRead`
  below allows them where the code does not).
  `CursorWalks` is the heart of it: after *k* rounds the cursor of
  `tp3_nsettoarray` stands at the device that *k* falls on in the running sums,
  so that the arrays of devices and of nodes tell the slots one after the other,
  whatever was moved by deletions.

`TransferProofs`, over the lemmas of `CodecProofs`, for every set of headers,
contents, shapes of blocks, nodes and device lists, and every damage:

- `TypeCorrect` (`TypeOK`), `BufferSuffices`
  (`FitsBuffer`), `FieldsAdjoin` (`LengthsTold`), `DamageNoticed`
  (`DamageRefused`), `BlockRowsKept` (`RowsKept`).
- The invariant is `TransferInv == BlockOK /\ GcgOK /\ PipeOK`.  `BlockOK`: a
  row without a timestamp has no devices, and the current row none behind its
  counters - otherwise a new row or device could overwrite an old one; the block
  is of one of the shapes and short enough to be sent; its rows hold only what
  was entered (`Drawn`), none has more devices than the block has of a kind, and
  what is behind them is 0 (`Ended`), as a parser leaves it.  `GcgOK`: `numofdev` of each set is the sum
  over its nodes and ids are distinct, from which the lengths of all lists of a
  report follow.  `PipeOK`: messages are in `Msgs` (each field sound for its
  code), a frame not damaged carries chunks `tp3_generateframe` can make (`Sent`)
  under their checksum, and a damaged one has a checksum that does not fit.
- There is one lemma for each function that adds, writes or parses a field
  (`AddFieldOK`, `PutOK`, `FieldChunkOK`, `AddChunkOK`): each makes sound
  fields of sound arguments.  `PutAllOK` and `ParseFieldsOK` carry that over the
  folds, `StatBlockOK` and `EnvBlockOK` over the bytes of a block.
- `DamageNoticed`: bytes that differ differ in a bit (`BitDiffers`), one changed
  byte changes the parity of that bit (`ParityTells`) and the digits tell the
  parities (`DigitsTell`); `DataDisturbed`, `LengthDisturbed` and `CodeDisturbed`
  show that each kind of damage is one byte of the flat frame.
- `BufferSuffices`: 72 is what the eight fields of the header and the digits take, and
  no field takes more than its length and four (`FrameFits`, by induction over
  the fields beside the fold of `Estimate`).

`ReadBackProofs`, for the same constants and with every history of updates, that
what arrives is what was sent:

- `ContentArrives` (`ReadBack`), `ReportsRead` (`ReportArrives`), `BlocksRead` and
  `HistoryArrives` (`HistoryRead`), `AttributesArrive` (`SmallAttributesRead`), and
  `FaultsConfined` (`FaultsKnown`), that nothing else is lost on the way.
- `FaultsConfined` has no hypothesis: it holds with whatever is behind `header[]`,
  short texts, long lists and nodes without devices included.  `ComposedFields`
  says the fields of a message are those of the entries put into it, `ShortFor`
  that a field is mistaken exactly when its entry is a short text, `LongFor` that
  a list too long for the parser came from a long one.  With `SentOK` (below) the
  rest is by cases on the stages (`NextFaults`).
- `ReadBack` speaks of `sent` and `got`, which no step relates directly.  The
  invariant `TravelInv` is `TransferInv` and three more parts.  `SentOK`: the
  message is the one composed of what was sent, the frame that message's frame,
  and `got` what that frame is parsed into (`Arrived`).  `AboutOK`: a report or an
  answer is of the node sets or the block as they still are, for these are the
  lists and rows the reader's are compared with.  `IdleOK`: between two messages
  there is nothing to be about, or filling a block would contradict `AboutOK`.
  `AttributesArrive` adds `LoadOK`, that a profile or attributes were put into
  the message by the function made for them.
- Under it lies a round trip for each conversion: `ReadWritten` (a number of any
  width), `WordRead` (the int of a field), `TimeRead`, `IntervalRead`, `ArrayBack`
  (a list, item by item), `FieldBack` (a field through its chunk), `HeaderBack`
  and `MessageBack` (a whole message).  `EntryFound` says `tp3_readfield` finds
  each entry, since no two have one code.
- For reports, `StatCarries` and `EnvCarries` say which entries a report has, and
  `DevsHeld` that its lists are what the slots hold and nothing else: `numofdev` is
  the sum over the nodes, so no item is left over or unwritten.  `ReportArrives`
  has the condition that no node without devices is in front of one with
  (`Gaps`); nodes without devices elsewhere are covered.
- For blocks, `StatBlockRead` and `EnvBlockRead`: each row lies where the parser
  looks for it (`Lies`, `StatRowSplit`, `EnvRowSplit`: writer's and parser's
  offsets, part by part), and an array cut short by its counter is padded with
  the zeros that `Ended` says were there.
- Their hypotheses.  `PastHeader = 1`: behind the table of the header's lengths
  lies a 1, and the response code is a byte; with a 2 or a 3 it arrives as its
  high byte, 0.  For `BlocksRead`, `BlockFits` of the block that is sent: it has a row
  (a block without rows is an empty field, from which the parser would still read
  counters) and its values fit their bytes.  `HistoryArrives` has instead
  `SamplesFit`, that of everything the application enters.

The modules' assumptions are few and named.  `FieldsAssumption`,
`CodecAssumption` (the date is digits),
`HistoryAssumption` (a block has a sample for each row, a number of devices
within `_TP3_MAX_DEVICES`, ids that are not 0, and fits a field),
`GcgAssumption` (a list of all nodes, and one of all their devices, has a length
that 16 bits can tell), `TransferAssumption` (identifiers of 24 bits; values of
the length their codes have, or of any up to 65535 bytes under a code without
one), `WidthsAssumption` (each value fits the bytes of its code, no
code twice in a content; at most 255 nodes of a type, rows of a block and devices
in a row, each counted in one byte: a GCG with 256 nodes would report none) and
`AttributesAssumption` (a content that is about a profile or attributes is what
the function for it makes of them) say what the callers of the library have to see to, since
no function checks it.  A list that is longer than `_TP3_MAX_ITEM`, a text that is
too short and a node without devices are within them.  In `NodeSet`,
`Absent` is not a node's data.  TLC evaluates all of them.

Induction over data is not available to the provers as a rule with a formula for
a parameter.  `Recursion` does it with sets instead: a set of numbers that holds
0 and every successor of its members is all of `Nat` (`SetInduction`, from the
well-foundedness of `<`), and the proofs define the set of the indices at which
the claim holds.  Folds are unrolled through the function they compute
(`IterExists`).

Every safety property of a passing run is proved.  Only model-checked is what is
live, which is beyond the prover: `RequestAnswered` and the fairness of
`ImplementsQueue`.  Where a theorem needs a hypothesis beyond the named assumptions (no misuse, no
failing `realloc`, no quiet callback, `PastHeader = 1`), it is given above; what
happens without it is there or under Findings.

## Findings

- `node_set_growth`: `tp3_addnset` counts `numofnode` up before it reallocates
  and does not count it down when that fails; the arrays are freed.
- `exchange_shared`: `tp3_initgcg` resets the callback table of the process, the
  GOS's checks with it; unknown GCGs are approved from then on.
- `transfer_attributes`: values of four bytes are written as numbers and parsed
  as bytes (`ttap3_base.c:339`: `<` where `<=` is meant), a threshold is written as
  an interval and read as a number (`ttap3_util.c:165`), and the interval of an
  actuator is written under a code its reader does not look for (`:210`).
- `transfer_texts`: bytes, one to four of them, under a code without a fixed
  length - a serial or model number, the binary of an update - are
  accepted (`ttap3_util.c:73-78`, `ttap3_gcg.c:92`) and kept by value, as
  `ttap3_base.h:97-103` and `test/test_base.c:103` have it; `tp3_generateframe`
  then copies from that value as from an address (`ttap3_base.c:235`).

Other disagreements, each with the change to a configuration that shows it:

- Updating a node through the structure that registered it frees the arrays and
  copies their addresses back (`ttap3_util.c:378`): `NoFault` with
  `Misuse = {"resubmit"}` in `NodeSetMemory.cfg`.
- A node without devices in front of nodes with some breaks `tp3_nsettoarray`
  (`ttap3_util.c:545`): it reads through a null pointer, or, if the node is the
  first, reports what was on the stack.  `ReportRead` in `NodeSetMisuse.cfg` with
  `GidList <- EmptyOrOne`; in `transfer` these are the nodes that `FaultsKnown`
  names and `ReportArrives` leaves out.
- A list of more than `_TP3_MAX_ITEM` items is sent, and the parser writes behind
  its array (`ttap3_base.c:295-305`, where only a warning is printed): the long
  lists of `FaultsKnown`.
- A request refused at a field behind its first ones is not released
  (`ttap3_process.c:48` after `ttap3_base.c:331`): the first way of `LossyCall`.
- With a 0 behind the table `header[]` no response can be sent (`ttap3_base.c:162`
  and `:235`): `FaultsKnown` holds with `PastHeader = 0` in `Transfer.cfg`, and
  `stage` becomes `"crashed"` at every response.
- `tp3_initgos` copies more than `_TP3_MAX_GCG` identifiers without a look
  (`ttap3_gos.c:34`); not modelled.
- When more than one `realloc` of `tp3_addnset` fails, only the first array is
  freed (`ttap3_util.c:399-405`); the arrays are not in `heap`.
- After a failed `tp3_initnodedata` the structure says it has devices and its
  pointers are null or dangle (`ttap3_util.c:243-261`): `NoFault` with
  `Misuse = {"failed"}` in `NodeSetMemory.cfg`.
- When a callback fails, the request is never answered (`ttap3_process.c:60`,
  `doc.src/main.md:74`): `RequestAnswered` with `"fail"` among the callbacks in
  `ExchangeLive.cfg`.
- A callback that confirms a response makes `tp3_response` produce a frame of a
  zeroed message (`ttap3_process.c:66`): `EchoesRequest` with `"quiet"` among the
  callbacks.
- A field is written behind the array when the array cannot be extended
  (`ttap3_base.c:466`): `NoFault` with `"fields"` in `AllocFails` in `Message.cfg`.
- A frame shorter than a header is never read and never dropped
  (`ttap3_base.c:47`): the reason for `Stuck` in `Stream`.
- A field of more than 65535 bytes is cut off without an error
  (`ttap3_base.c:209`); not modelled.
- Deleting a node with `tp3_updategcgnode (id, NULL)`, as `ttap3_gcg.h:22`
  describes, reads through the null pointer (`ttap3_gcg.c:58`): in `transfer`,
  `gcg.state` becomes `"crashed"` at each such call (`NullCalls`), and stays so.
- `ttap3_util.h:172` names device types that `tp3_initnodedata` refuses (it takes
  the node types).

## Not modelled

- `localtime`, `mktime` and the time zone: a time is its local digits.  An hour
  may be lost where clocks change, since `tp3_getepoch` leaves `tm_isdst` unset.
- Frames whose fields do not add up.  Behind a correct checksum they come only
  from a program other than this library; reports without their numbers
  (`ttap3_gos.c:104`) and profiles without all their fields (`ttap3_util.c:43`)
  too.
- Code that only prints (`tp3_printmsg`, `tp3_printframe`, `tp3_geterrormsg`), and
  the memory wrappers, whose effect `NodeSet` and `Message` model.

## Further work

`Gcg` over `NodeSet` instead of by value, so that memory and reports are one state.
Damage that changes more than one byte: the digits notice it only by chance, and
what the parser then makes of a frame is not modelled.
