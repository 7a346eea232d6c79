# Specifications of go-rsync-receiver

go-rsync-receiver is the server half of rsync (protocol 27) as a Go library: a
program that owns a connection and a file system of its own calls
`rsyncreceiver.ClientRun` to take an upload or `rsyncsender.ClientRun` to serve a
download. The rsync client at the other end of the connection and the
`utils.FS` behind it are supplied by others.

This directory holds TLA+ modules of that code, TLC configurations that check
them on small instances, and proofs for TLAPS. It is written for a reader who
has the repository open. File names below are relative to `src/`.

* [Inventory](#inventory)
* [Modules, and how they correspond to the code](#modules-and-how-they-correspond-to-the-code)
* [Runs](#runs)
* [Fairness](#fairness)
* [What is proved](#what-is-proved)
* [What the checks found](#what-the-checks-found)
* [Not modelled, and the plan](#not-modelled-and-the-plan)

## Inventory

### Receiving side: `rsyncreceiver/`

`Do` (do.go) runs after the file list is known. It deletes first if asked to,
then starts two errgroup functions over one connection.

| goroutine | state | operations |
|---|---|---|
| generator (`GenerateFiles`) | index in the list, open local file, block counter | skip an up-to-date or non-regular entry; request an entry; write a head and the block sums of the local copy; end a phase |
| receiver (`RecvFiles`) | phase, entry, local file, md4 state, pipe writer | read an index; open the local copy; read the head; copy literals and local blocks to md4 and pipe; close the pipe and wait; compare the md4 |
| the select around it | its result | return what the receiver returned, or give up when the generator has failed |
| one `Files.Put` per file | what it has read | read the pipe, store, return (its error is dropped) |

They share the connection, the local file system, `rt.Opts`, and per file an
`io.Pipe` and a `WaitGroup`. Hard: the generator can fail while the receiver is
in the middle of a file and is then left behind; the receiver can fail while the
generator is blocked in a write; Put can fail at any time; the local copy can
change between sums and reconstruction; the connection is bounded both ways, so
everyone may wait for everyone.

Correct means: the streams stay in step whatever is skipped or fails; a success
means that every requested file is stored with the sender's content; no
truncated file is stored; a verified file is the stored one; `Do` returns.

### Sending side: `rsyncsender/`

`Do` sends the list, sorts it, and runs `SendFiles` (sender.go) in one goroutine:
read an index, read the head and sums of the client's copy (`receiveSums`), then
send the whole file (`sendFile`) or search it for the client's blocks
(`hashSearch`). State: phase, index, sums, open file, md4 state. Hard: a file
may vanish, fail to open, fail in the middle of a read, or change while it is
sent; what was written cannot be taken back; the client may go away anywhere.

Correct means: requests are always read to their end, answers can be decoded and
come in the order of the requests, the checksum covers what was sent, the
session ends.

### Block search: `rsyncsender/match.go`, `token.go`, `rsyncchecksum/`

Input: a file and the block sums of another copy. State: offset, window length
`k`, both halves of the rolling checksum, `st.lastMatch`, md4 state. Output:
literals and block references. Hard: off-by-ones at the ends, arithmetic modulo
2^16, the short last block, intermediate flushes, and reads that go backwards.

Correct means: the tokens and the md4 both stand for the file, the rolling
checksum equals the direct one, no block is missed, the backlog stays bounded.

### Read window: `rsyncsender/fileio.go`

`mapStruct` is a window over a file descriptor; `ptr(offset, l)` returns a slice
of it, moving and re-reading the window when it has to. State: window buffer,
`pOffset`, `pLen`, `pSize`, first error. Correct means: `ptr` returns the bytes
of the file at that offset.

### The other parts

| part | files | state and operations | correct means |
|---|---|---|---|
| file list | `rsyncsender/flist.go`, `stat.go`, `rsyncreceiver/flist.go`, `uidlist.go`, `utils/file.go` | encode entries, id lists and I/O error flag; decode them with inherited fields; sort on both sides | the other side decodes the same entries, and an index means the same file on both sides |
| filter list | `rsyncsender/exclude.go` | read rules until an empty one, match names | rules apply as the client meant them |
| wire format | `rsyncwire/wire.go`, `rsync/types.go` | a message is a header (type and length in one word) and a payload, in two writes; the reader refuses long messages and panics on short slices | the reader keeps its place; the data in the messages are a stream |
| handshake | both `client.go` | version, seed, switch to messages, filter rules, list, deletion, the deferred error message | both sides switch at the same integer; failures reach the other side; nothing is deleted on an incomplete list |
| options | `rsyncopts/rsyncopts.go`, `popt.go` | table-driven parser (words left, cluster, options), a second reading for a daemon, defaults that depend on other options | no file name is lost, the last option wins, spelling does not matter |
| sizes | `rsynccommon/rsynccommon.go`, `SumHead` of `rsync/types.go` | block length, count and remainder from a file length | blocks cover the file exactly |
| file system | `utils/fs.go` | interface only | supplied by the caller |

Parts without state or control (constants, the logger interface, the statistics
record, the build-dependent open flag) are listed in PROJECT.json only.

## Modules, and how they correspond to the code

| module | models | used by |
|---|---|---|
| `Receiver` | `Do`, `GenerateFiles`, `RecvFiles`, `receiveData`, Put, the end of `ClientRun`, against an external sender | `MCReceiver`, `ReceiverProofs` |
| `Delivery` | the promise of one `Do`: what `Receiver` is shown to implement | `Receiver` (instance with a refinement mapping) |
| `Sender` | `SendFiles`, `receiveSums`, `sendFile`, the end of `Do` and `ClientRun`, against an external client | `MCSender`, `SenderProofs` |
| `SumSizes` | `SumSizesSqroot`, `ReadFrom`, and the blocks that generator, sender and receiver derive from a head | `HashSearch` (extends it) |
| `MapStruct` | `mapFile`, `ptr` | `HashSearch` (extends it) |
| `HashSearch` | `hashSearch`, `matched`, `sendToken`, `Checksum1` | `MCHashSearch`, `HashSearchProofs` |
| `FileList` | `SendFileList`, `RecvFilterList`, `matches`, `ReceiveFileList`, `RecvIdList`, both sorts, with the client at the other end | `MCFileList`, `FileListProofs` |
| `Stream` | what a multiplexed connection promises its reader: the bytes written, in order, without gaps | `Wire` (instance) |
| `Wire` | `WriteInt32`, `WriteMsg`, `ReadInt32`, `ReadMsg`, `Read` over one direction of a connection | `Session` (extends it) |
| `Session` | both `ClientRun`s from the first integer to the return, over `Wire`; the exchange that `Receiver` and `Sender` model is there only as messages out and items in | `MCSession` |
| `Options` | `poptGetNextOpt`, `ParseArguments` and the tables | `MCOptions`, `OptionsProofs` |
| `ReceiverProofs` (storing, then what is under way and the refinement of `Delivery`), `SenderProofs`, `HashSearchProofs` (block sizes, the read window and the search), `FileListProofs`, `WireProofs`, `SessionProofs`, `OptionsProofs` | theorems and proofs | |
| `Induction` | induction and recursion over the natural numbers, for the proofs | `ReceiverProofs`, `SenderProofs`, `HashSearchProofs`, `FileListProofs`, `OptionsProofs` |
| `MCReceiver`, `MCSender`, `MCHashSearch`, `MCFileList`, `MCSession`, `MCOptions` | finite instances for TLC | |

Operators named `Variant` in a comment are plausible mistakes of the definition
that follows them. No specification uses them; PROJECT.json names, for each
checked property, the one that breaks it.

### Receiver

A goroutine is a control variable (`main`, `sel`, `gen`, `recv`, `put`) and its
locals; each action is the code from one blocking point to the next.

| variables | in the code |
|---|---|
| `main` | `Do` and the code of `ClientRun` after it: deletion, `eg.Wait`, `report`, goodbye, the deferred error message |
| `sel` | the second errgroup function; `ok` and `err` are its results |
| `gen`, `genIdx`, `genSnap`, `genSum` | `GenerateFiles`: position, `idx`, the open local file, loop variable of `generateAndSendSums` |
| `recv`, `phase`, `cur`, `base`, `hash` | `RecvFiles`, `recvFile1` and `receiveData`: position, `phase`, `idx`, `localFile`, the md4 state |
| `put`, `acc`, `pipe`, `eof` | the Put goroutine, what it has read, the pending write of the pipe, `w.Close()` |
| `out`, `in`, `closed` | the connection, one bounded FIFO per direction; closed by whoever called `ClientRun` |
| `peer...` | the remote sender, external: it answers requests in order, with literals or references as it likes |
| `local`, `strays`, `edited` | the caller's file system, other programs included |
| `requested`, `vanished`, `putErr`, `stored` | history variables |

An error leaves a goroutine in `err`. When the generator fails, `SelectCtx` lets
the errgroup finish while `recv` stays where it is: that is the goroutine the
code leaves behind, and it goes on taking steps. `LeavePut` is the code's return
from `receiveData` without closing the pipe. Contents are sequences of blocks,
hashes are abstracted to what they hash. `InPlace` is there because `utils.FS`
does not say whether Put replaces a file or overwrites it; both are checked.
`View` is what an open handle then reads.

### Sender

One control variable `pc`. `Writes(at, m, next)` is one write group: it succeeds
or, once the client is gone, fails and leads to the deferred error message.
`Continue` is the branch of `SendFiles` for an `*os.PathError`; the history
variable `torn` remembers the requests for which it was taken after the answer
had begun. `written` keeps everything that was written, so that the properties
can decode it.

With block sums the code opens `fl.Path`, which `SendFileList` sets to `/`
(`OpenRoot`). A directory opens and has a length (`RootSizes`), but no read of it
succeeds. The first request to the window fails only after `pOffset` and `pLen`
were set (rsyncsender/fileio.go:100), so the later ones are served from a window
of zero bytes. `SearchRoot` is what comes out of that: literals of zero bytes and
references to those blocks of the client that may be made of zero bytes
(`zeros`), all of them hashed, and then the end token, the md4 and the next
request as for a whole file. `SearchPanics` is the rest: a length of zero, or one
beyond the window (`RootWindow`), where the next read fails too and the update
indexes an empty slice. `searched` remembers which answers came from a search.
The search itself is `HashSearch`; its `UnreadableIsZeros` is the fact that
`SearchRoot` relies on.

### FileList

| variables | in the code |
|---|---|
| `lines`, `rules`, `listing`, `pc`, `err`, `fec`, `files` | `RecvFilterList` and `SendFileList`: rules read, paths and infos to come, the outer `err`, the buffer, `fileList.Files` after the sort in `Do` |
| `in`, `cut` | the connection towards the decoder; it may end |
| `at`, `flags`, `l1`, `l2`, `f`, `last`, `fileList`, `ioErrors` | the locals of `receiveFileEntry` and `ReceiveFileList`; `at` is the next read |
| `encoded`, `abandoned` | history variables |

`upload` chooses the direction. In a download the package encodes: `EncodeEntry`
is one turn of the loop over infos with all its ways out. In an upload
`ClientEntry` encodes, inheriting and abbreviating wherever the format allows.
The decoder is the package's; as the client's decoder in a download it reads the
fields under the conditions of the writer (`Reads`). A field on the wire is its
width and its value. A decoder that meets a field of another width has lost its
place (`lost`), and what it makes of the bytes is not followed.

The order of names is the order of character codes, `Sorted` gives every result
an unstable sort may have, and `Clean` is `filepath.Clean` in full, because one
side sorts raw names and the other clean ones.

### HashSearch and MapStruct

`pc` walks through `hashSearch` (`start`, `probe`, `advance`, `roll`, `step`,
`rest`) and `matched` (`literal`, `hash`); `CallMatched` passes arguments and the
place to return to. All reads go through `ptr`, every one of which changes the
window: `ptr` is the returned slice and `PtrState` the mapStruct after the call.
`Truncate` lets another program shorten the file, which makes later reads fail;
`err` in the mapStruct is the code's `ms.err`. Checksums are computed as the code
does, modulo `Modulus` (2^16 in the code), over signed bytes. The tag table only
narrows the search to the blocks with an equal rolling checksum; the order among
them depends on an unstable sort, so any of them may be found. A panic is a
state of its own.

### SumSizes

Pure definitions without state. The sender adds up the offsets of the blocks
(`SumOffset`), the receiver multiplies (`CopyOffset`), and the generator reads the
shorter of a block and what remains (`Remaining`, `GeneratorReads`); sender and
receiver find the short last block by its number and the remainder (`SumLen`).
`Int32` is the conversion to 32 bits; `IsRoot` leaves open whether `math.Sqrt` of a
rounded `float64` is one too large. `HashSearch` takes the blocks of the other
side's copy from here, with any block length, since a client may choose its own.
`MCHashSearch` states as an assumption, which TLC evaluates, that `ReadFrom` takes
the head of every file up to the limit, that its blocks cover the file
(`Covers`), and that the three sides agree (`SidesAgree`).

### Wire, Stream and Session

| variables | in the code |
|---|---|
| `plainOut`, `plainIn` | integers still to be written or read before `c.Writer` or the reader changes to messages |
| `pending` | `WriteMsg` between its two writes |
| `conn`, `closed` | one direction of the connection, which may end anywhere |
| `buffer`, `reader`, `last`, `got` | the slice given to `MultiplexReader.Read`, what the reader waits for or how it ended, the header read last, what was delivered |
| `written`, `over` | history: how many bytes were written, and whether a length did not fit below the type |
| `role`, `delete`, `negotiate`, `flag` | which `ClientRun`, `opts.DeleteMode()`, the parameter `negotiate`, the flag at the end of the client's list |
| `up` | what the client still writes; a prefix of a script, so it may stop anywhere |
| `pc`, `err`, `ioErrors` | place in `ClientRun`, the `err` its deferred function sees, `rt.IOErrors` |
| `removed`, `failedAt` | history |

A header is the set of bits in its top byte and the number below. `Spilled` is
what the bitwise or of a long length does to the type, so a message that is too
long is refused, taken for another type, or makes the reader take payload for a
header (`lost`, after which its bytes are not followed). Each cell tells where it
comes from (`of`, `off`); the reader does not look at that, the proofs do. The
package writes its messages, and the client reads them with the same package's
`MultiplexReader`. `Session` adds that each step of `ClientRun` waits for its last
message to be whole, and that the error a step returns is seen by the deferred
function only where the code assigns the outer `err` (`Failed`).

### Options

One action is one option, from `poptGetNextOpt` finding it to the end of its case
in the switch. `args` and `cluster` are `pc.args` and `pc.nextCharArg`; `o` maps
the names of the fields of `Options` to their values, `info` is `opts.info`. The
tables are sets of rows, in the groups in which rsyncopts.go lists them
(`OutputOptions` to `RemoteOptions`), which is sound because names are unique
(`NamesAreUnique`, which TLC evaluates). A row tells the field it sets and the
case that handles it; all cases that end in an error are one (`refused`). A word
is its dashes and its tokens, a long name being one token. A long name that the
table in use does not know is read as a cluster (rsyncopts/popt.go:176), where all
but three fail at their first letter. Those three (`-version`, `-hard-links` and
`-human-readable`, for a daemon) and four names that look like clusters, but are
none, are written letter by letter (`Letters`). `Restart` is the daemon's second reading, with the same options.
`MCOptions` adds a second parse: when a line is done, the same line is read again
with every option in a word of its own and every text behind an equals sign, and
`SpellingDoesNotMatter` compares the two results.

## Runs

All runs finish in at most about two minutes with two workers.

| run | what it shows | bounds |
|---|---|---|
| `receiver_safe` | the streams stay in step (`InSync`), a success leaves nothing under way but the goodbye (`SuccessIsQuiet`), only one situation can hang (`OnlyAnAbandonedReadHangs`), stores are complete and verified (`NoPartialCommit`, `VerifiedIsStored`), and `Do` keeps the promise of `Delivery` (`Delivers`) | 3 entries, a directory between a file of two blocks and one of one; 4 local states (missing, empty, shorter, same length, longer); 3 kinds of session; all failures; buffers of one message; one edit by another program |
| `receiver_live` | `Do` returns unless the connection to the sender stays full (`DoReturns`), and always once the sender has gone (`EndsOnceSenderGone`) | the same entries, 2 local states, a buffer of two towards the sender, failures other than skips and edits |
| `hash_search` | tokens and md4 stand for the file (`TokensRebuildTheFile`), the rolling checksum is the direct one (`RollingIsDirect`), no block is missed (`NoBlockMissed`), the backlog is bounded (`BacklogBounded`), the window does not lie (`WindowFaithful`), a panic has a cause (`PanicNeedsCause`), zero bytes that cannot be read are sent all the same (`UnreadableIsZeros`) | all files of up to 5 bytes over two values, files of 1 to 6 zero bytes, one of 11 and one of 16; 7 copies of up to 5 bytes; blocks of 2 and 3; checksum modulo 4; literals and window of 4 bytes, aligned to 2; truncation at any point |
| `hash_search_changed` | counterexample: a read fails for a file that has not changed | files of 9 to 11 bytes, no truncation |
| `sender` | requests are read to their end (`RequestsDecode`), answers can be decoded (`RepliesDecode`), come in order (`AnswersInOrder`) with sums that cover them (`SumsCoverTheAnswer`), the session ends (`SessionEnds`) | 2 files, 2 requests over both phases with 0 or 2 sums, dry run or not, a directory of 0 or 2 blocks with a window of one, one edit, every failure |
| `sender_skips` | counterexample: a file is passed over after its answer has begun | 2 requests, read failures only |
| `sender_search` | counterexample: a request with block sums is answered with zero bytes | 1 request, no failures, no edits |
| `flist` | the receiver loses its place or fails only for one of the listed causes (`BreaksForCause`), otherwise it decodes the sender's list (`ListDecoded`), in an order that gives each name one index (`IndexAgrees`), and stops at the first byte after it (`NothingLeft`) | lists of up to 3 entries of all kinds, 4 of them for a download and 5 for an upload, one with names that are not clean; 5 sets of options; 4 filter lists; id lists of 0 and 2 ids; times up to the first that wraps; a name of `PathMax`; every failure |
| `session` | the reader keeps its place unless a length did not fit (`StaysFramed`), does not panic with a large slice (`LargeBufferIsEnough`), and gets a stream (`CarriesTheStream`); failures reach the client (`FailureIsHeard`); nothing is removed without a complete list and for a client with I/O errors (`DeletionIsSafe`); both sides end (`BothEnd`) | both roles, with and without negotiation, deletion and I/O errors; scripts of one rule, one entry and one item that stop anywhere; messages of 1, 2, 3 and 5 with a limit of 2 and 4 as the first length that does not fit; slices of 1 and 2; data messages begun up to 3 bytes |
| `options` | no file name is lost or made up (`OperandsSurvive`), the last option about a switch wins (`LastOptionWins`), nothing of the first reading counts for a daemon, and only a daemon's options may panic (`DaemonStartsOver`), spelling does not matter (`SpellingDoesNotMatter`) | all lines of up to 3 words from a pool of 29, and every option of both tables alone, with one dash and with two, with and without a text, also behind `--daemon`; integers of -100 to 100 |
| `flist_links` | counterexample: an unreadable link leaves half an entry | failures of `os.Readlink` only |
| `flist_includes` | counterexample: an include rule excludes | two filter lists with includes, no failures |

Why the bounds are enough. Receiver and sender treat entries one after the
other and carry only phase, md4 state and streams from one to the next, so three
entries with two requests give every pair of successive outcomes, at the sender
also a request behind one that was searched; two blocks
give a first, a middle and a last step of each loop; buffers of one message are
the tightest coupling of reader and writer. In the block search the constants
keep the code's relations (literal length and default window are equal, the
window is a multiple of the alignment, files exceed window and flush limit) at a
scale where sums wrap and false alarms of the rolling checksum occur. The block
sizes are evaluated for all files of up to 63 bytes, with 3 as the shortest and 8
as the longest block and integers that wrap at 16, so every number of blocks
occurs with every remainder.

In a session the lengths are chosen around both limits: below, at and above the
reader's limit, and beyond the length field with a remainder that the reader
accepts; one item of a kind is enough since nothing is counted. In a command line
an option interacts with the word that follows and with one option before it, so
three words give each pair a text or an operand; the pool has a word for each way
out of `poptGetNextOpt`.

In the file list an entry depends on the one
before it only, so three entries and every subset of equal attributes give each
case of inheritance, and every field is followed by the end of the list once.

Deadlock checking is on in the runs of `FileList`, whose decoder must always have
something to do until it is over. It is off in the others, because each of these
programs ends; in its place stand `OnlyAnAbandonedReadHangs`, `DoReturns`,
`SessionEnds` and `BothEnd`. A command line gets shorter with every option, and the
offset of a search grows with every round, so these two need no such property.

## Fairness

* `Receiver`: weak fairness for each goroutine, for the caller that closes the
  connection after `ClientRun`, and for the remote sender. The Go scheduler runs
  every goroutine that can run, and a sender that has not gone away works on.
  Crash, failures and edits have no fairness: they may or may not happen.
* `Sender`: weak fairness for the sender's goroutine, and for the client to finish
  a request it has begun and to end the session. It need not ask for more.
* `Session`: weak fairness for `ClientRun`, for the caller that closes the
  connection after it, and for the client to read what has arrived. The client
  need not write to the end of its script, but where it stops the connection ends:
  the code sets no deadline, so a client that is silent on an open connection makes
  it wait forever, and `BothEnd` does not speak of that client.
* `FileList`, `HashSearch`, `Options`: none, their properties are safety properties.

`DoReturns` states its remaining assumption itself: the connection to the sender
has room again and again. Without it the property is false, see
`OnlyAnAbandonedReadHangs`.

## What is proved

For every value of the constants that satisfies the named assumptions
(`ReceiverAssumption`, `SenderAssumption`, `SumAssumption`, `MapAssumption`,
`SearchAssumption`, `FileListAssumption`, `WireAssumption`, `SessionAssumption`,
`OptionsAssumption`), without bounds on files, blocks, entries, names, messages,
buffers, command lines or failures:

| theorem | statement |
|---|---|
| `ReceiverProofs!TypeCorrect` | `Spec => [](TypeOK /\ Placed)` |
| `ReceiverProofs!StreamCorrect` | `Spec => []Streaming` |
| `ReceiverProofs!NothingPartial` | `Spec => NoPartialCommit` |
| `ReceiverProofs!AcceptedIsStored` | `Spec => VerifiedIsStored` |
| `ReceiverProofs!ExchangeCorrect` | `Spec => []ExchangeInv` |
| `ReceiverProofs!NeverOutOfStep` | `Spec => []InSync` |
| `ReceiverProofs!SuccessLeavesNothing` | `Spec => []SuccessIsQuiet` |
| `ReceiverProofs!DoDelivers` | `Spec => Delivers`: the refinement of `Delivery` |
| `SenderProofs!TypeCorrect` | `Spec => []TypeOK` |
| `SenderProofs!RequestsAreDecoded` | `Spec => []RequestsDecode` |
| `SenderProofs!RepliesAreDecoded` | `Spec => []RepliesDecode` |
| `SenderProofs!AnswersKeepOrder` | `Spec => []AnswersInOrder` |
| `SenderProofs!SumsAreOfTheAnswer` | `Spec => []SumsCoverTheAnswer` |
| `HashSearchProofs!WindowNeverLies` | `Spec => []WindowFaithful` |
| `HashSearchProofs!FlushBounds` | `Spec => []BacklogBounded` |
| `HashSearchProofs!RollStaysInside` | `Spec => []PanicNeedsCause` |
| `HashSearchProofs!SearchTypeCorrect` | `Spec => []TypeOK` |
| `HashSearchProofs!ChecksumRolls` | `Spec => []RollingIsDirect` |
| `HashSearchProofs!TokensRebuild` | `Spec => []TokensRebuildTheFile` |
| `HashSearchProofs!BlocksAreFound` | `Spec => []NoBlockMissed` |
| `HashSearchProofs!HeadIsSound` | `ReadFrom` takes the head of a file below `MaxBlockLen^2` bytes, and its blocks cover the file |
| `HashSearchProofs!NextBlockIsTheSame` | generator, sender and receiver mean the same bytes by a block, if they do so where it begins |
| `HashSearchProofs!SidesMeanTheSame` | `SidesAgree(h, len)`: so they do for every block of a file, from any head with true numbers |
| `HashSearchProofs!PtrExact` | from any faithful window `ptr` returns exactly the file's bytes |
| `FileListProofs!FileListIsInductive` | `Spec => []FileListInv` |
| `FileListProofs!FileListTypes` | `Spec => []TypeOK` |
| `FileListProofs!FileListBreaksForCause` | `Spec => []BreaksForCause` |
| `FileListProofs!FileListDecoded` | `Spec => []ListDecoded` |
| `FileListProofs!FileListIndexAgrees` | `Spec => []IndexAgrees` |
| `FileListProofs!FileListNothingLeft` | `Spec => []NothingLeft` |
| `WireProofs!WireCorrect` | `Wire => []WireInv` |
| `WireProofs!FramingKept` | `Wire => []StaysFramed` |
| `WireProofs!NoPanic` | `Wire => []LargeBufferIsEnough` |
| `WireProofs!StreamCarried` | `Wire => CarriesTheStream`: the refinement of `Stream` |
| `SessionProofs!SessionFramed` | `Session => []StaysFramed` |
| `SessionProofs!SessionCarries` | `Session => CarriesTheStream` |
| `SessionProofs!SessionTypes` | `Session => []TypeOK` |
| `SessionProofs!FailuresAreHeard` | `Session => []FailureIsHeard` |
| `SessionProofs!DeletionsAreSafe` | `Session => []DeletionIsSafe` |
| `OptionsProofs!NoOperandLost` | `Spec => []OperandsSurvive` |
| `OptionsProofs!LastWins` | `Spec => []LastOptionWins` |
| `OptionsProofs!TypesHold` | `Spec => []TypeOK` |

The argument for the receiver has three layers. `TypeOK` alone is not inductive:
a message or handle could belong to an entry that does not exist, so `Placed`
says at which control points an index, a handle or a count means something. On
top of both, `Streaming` ties md4 state, pipe, Put and control together: while
Put is at work, what it has read followed by what the pipe holds is what was
hashed; the write end is closed only by a receiver that waits; a Put that
returned earlier has failed. The two action properties follow from `Streaming` in
one step. It needs all its parts: without the placement of `pipe = <<>>` at
`token` and `wait` a pending write could be lost at the close.

The second half of `ReceiverProofs` adds what the connection holds. Each direction is the path of an
automaton: its places are the control points of reader and writer together with
the index they are at, each message is one step, and the invariant says that the
contents of the buffer lead from the reader's place (`OutFrom`, `InFrom`) to the
writer's (`OutTo`, `InTo`). Reading shortens the path at one end, writing
lengthens it at the other (`PathRead`, `PathWrite`, by splitting sequences, not by
induction). What can follow the last index of a phase, a goodbye or errors, is
found along the whole path (`PathFromBye`, with `Induction`). What a message stands for is a condition of its step: an index may
lie on the way to the sender only if that entry was requested, an answer on the
way back only if the sender had it requested and not vanished, and the index
after next only if no entry between them is still owed. Requests and answers only
grow, so a step once possible stays possible (`OutStepsGrow`, `InStepsGrow`).
`InSync` follows at once: each reader's place has steps only for the messages it
decodes. For `SuccessIsQuiet` that leaves the way to the sender: once it has answered the
end of the second phase, only the goodbye can be on it (`OnlyGoodbye`). The other
conjuncts are facts of the control (`ControlInv`,
`RequestInv`, `PeerInv`, `RecvInv`) and of the store: each entry below the
receiver's is stored with the sender's content or excused (`HandledInv`), which
is inductive only because the answers on the way skip no entry. TLC has checked
`ExchangeInv` on the instance of `receiver_safe` before it was proved. The
refinement is then one step to one step: an index written by the generator is
`Request`, a file vanishing at the sender and a failing Put are `Excuse`, a
completed Put is `Store`, the goodbye is `Succeed`, where `HandledInv` at the last
index says that everything requested is in the store, and the return of an error
is `Fail`; every other step leaves `Delivery` as it is.

For the sender, `QueueInv` describes the connection from the client: every message
is followed by what has to come behind it (`Whole`: an index by its head, a head
by its sums and then an index), the last one agrees with what the client has
still to write, and the first one with what the sender reads next (`Expected`).
Both ends keep this: what the client writes is what the last message calls for
(`GrowthKeeps`), and reading takes the first message away (`TailKeeps`). It would
not be inductive without the client's part, because the sender may have read
everything while a head is still to come.

What the sender writes is decoded by recursive functions over all messages so far
(`Decoded`, `Indices`, `Kept` in `Sender`). `Induction` proves induction over the
natural numbers for properties given as sets (from `NatLessThanWellFounded`, since
an induction rule with a predicate parameter cannot be instantiated), and from it
that a recursion has a solution; so it follows how each of the three goes on with
one message more (`DecodedMore`, `IndicesMore`, `KeptMore`). With these the
invariants are local again: `DecodeInv` says in which state the other side is at
each place of the sender, `OrderInv` that the indices written are those read, up
to the last one until its own is written, and `SumInv` that the answer in hand
holds the data hashed so far, a reference standing for a block of zero bytes, that
this is the file opened, or nothing but zero bytes when it is searched, and
that each finished one was summed; `AskedInv`
says where a request is in hand and that it is the last one read. TLC has checked
them on the instance of `sender` before they were proved.

For the block search, `HashSearchProofs` first shows that moving and re-reading
the window keeps it faithful (`LoadedFaithful`: the kept part comes from the old
window, the rest from the file) and then that `ptr` reads within it. The inductive
invariant `WindowInv` adds the types of the search's counters, which make every
offset given to `ptr` a natural number, and the fact that a file that was
truncated still holds its old bytes below its new size. Whether a length is small
enough needs no proof: a request past the end makes the read fail, which the
model records. For the two bounds `SearchInv` adds where the search is: what
`matched` was called with (`Called`), that the window length is that of the file
at this offset and `ptr`'s slice as long as it was asked to be while no read has
failed (`Positioned`), and that the backlog is short or so close to the end of the
file that only one more literal can join it (`Backlogged`).

The other four invariants of the search need more of it. `PlaceInv` orders the
places: what is matched never lies behind what was already sent, and tokens name
blocks that exist. Then each has an invariant of its own, which TLC has checked
on the instance of `hash_search` before it was proved:

* `RollInv` says at which place the two halves of the checksum belong to the
  window, also while `matched` flushes between an update and the step. The halves
  are recursive sums over a sequence (`Running`, shown to be well defined with
  `Induction`); that one update is right rests on what a window loses with its
  first byte (`RolledShorter`, `RolledOn`), where the second half loses it as often
  as the window is long, and on a modulus that may be taken before or after a sum
  (`ModSum`).
* `BuiltInv` says what the tokens stand for and what the md4 has seen at each point
  of `matched`: while literals are written the tokens run ahead of the hash, which
  catches up chunk by chunk. `Rebuilt` is a recursion over all tokens, so this
  needs how it goes on with one more (`JoinedMore`, `RebuiltMore`), and that
  adjoining pieces of the file are one piece. A match is what it should be because
  `Probe` has compared the block with bytes that are the file's (`PtrExact`).
* `MissInv` says up to which place (`Passed`) every occurrence of a block has been
  met by a reference. `Probe` moves it on by one place when no block is found
  there, which needs `RollInv`, since otherwise the tag table could hide one
  (`ProbeMet`). A match moves it past the whole block: whatever begins within it
  overlaps it (`MatchMet`). At `end` no place is left (`EndMet`), because no block
  is shorter than the last one and the short last block only counts at the end of
  the file (`LastShortest`, `PlacesEnd`).

All of them hold until a read fails. They are proved for every `Modulus`, so for
2^16, and for every alignment and size of window and literals.

A head's numbers are true because a root that fits below `MaxBlockLen` bounds the
block count by the block length plus three; from `len % b` and the rounded-up
quotient, `Covers` follows for each block. The three sides begin each block at the
same place if they began the one before at the same place (`NextBlockIsTheSame`);
with `Induction` that holds of every block (`SidesMeanTheSame`), of any head with
the true numbers for its block length, so also of one that a client has chosen.

For the file list, `FileListProofs` describes what was written without recursion:
a sequence `R` in which `R[i]` is the stream from the entry `i` on, for each entry
the same for its attributes (`A[i]`), and a tag `T[i]` with the flags, the length of
the shared prefix and the fields that are missing because the entry was abandoned
(`EntryAt`, `Laid`). What `SendFileList` and the client write is of this form: whatever
is written behind the entries lengthens each `R[i]` alike (`LaidGoesOn`), and one
entry more adds one place (`LaidOneMore`). `Written` says so while the list is
made, `Sent` with the id lists and the flag behind the last entry once it is sent. `Place` says where in it the decoder is: between two
entries, in the title of one, at one of its attributes, or behind the last; and
`Before` and `Partial` that what it has read is what was sent. An attribute that
was not sent is the one of the entry before because `Fits` lets a flag be set only
then, and `last` is that entry decoded. Two cases make the invariant inductive
where the formats disagree: `Right` (the values are claimed only if they do not),
and `Doomed`, where the decoder has passed over a field that was sent and is about
to meet a field of another width than it expects, or take the field for flags. The
fields that the decoder reads are those that were written by `Reads` and `Sends`
alone, field by field, so `NothingLeft` needs `Trailing`: what is left of the id
lists at each of their places.

`IndexAgrees` is a fact about sorting: the order is total on names
(`Less` compares at the first place where two names differ), so different names can be
arranged in ascending order in one way only, which is proved by comparing the first
place at which two arrangements differ. `Clean` is computed character by character
by a recursive function; that what it returns is a name no longer than what it was
given, but for "." in place of an empty one, and so below a `PATH_MAX` of at least
two, is proved with `Induction` over the characters read.

One property was too strong: `ListDecoded` did not hold of an upload whose names
are not clean. The receiver takes the shared prefix from the name before as it has
stored it, in its clean form (rsyncreceiver/flist.go:50), and the sender from the
name it has sent. The proof fails at `NameIsWhole`; TLC finds such a list now that
`MCUploads` has one. rsync clients send clean names, so the property asks for them.

For the wire the inductive invariant says locally what the connection holds:
`Leads` tells of every cell which cell must follow it, from where it comes from
alone (after a header the bytes it announces, after the last byte of a message the
header of the next), and the reader's state is one of the cells just read. So the
next cell is always the one the reader expects, until a length has spilled into
the type; no sequence of past messages has to be kept. The refinement of `Stream`
follows because the bytes still expected are numbered from `Len(got) + 1` on.

A session is a behaviour of `Wire` (`SessionIsWire`), so these theorems carry over.
For `FailureIsHeard` two more parts are needed: the error type appears on the
connection only when `ClientRun` has failed (`Innocent`; a spilled length sets
bits above those of the types, so it cannot forge one), and once it has failed
and the deferred function is not silent, the last thing on the connection is the
error message (`Told`). For `DeletionIsSafe`, what a client still writes holds the
end of the list at most once and nothing but replies and the goodbye behind it
(`EndsOnce`: proved of every script and kept by cutting it off anywhere and by
reading from it), so where files are deleted only those are left (`DeletionInv`).

For the command line, `OptionsProofs` says where in the line the parser is: at a
place `(m, k)` (`At`), before the word `m` or behind `k` letters of it, and never
within a word that an option before it has taken as its text (`Swallowed`). What an
option leaves to be read is the next place (`Goes`): over the one option at
`(m, k + 1)`, over the word that it takes, and over no operand (`OptionRead`,
`OperandRead`). The properties speak of the whole line and the invariants of what
is before the place: `OperandInv` that what remains lists the operands there,
`SwitchInv` that each switch is as the last option there left it, which goes on by
the order of places (`OneMore`). `Restart` goes back to the first place of the same
line, with the daemon's table.

What these proofs need of the tables is one statement about each row (`GoodRow`):
which kind of option may set which field, and that the cases behind `-a`, `-D`,
`--no-D` and `-H` set no field of their own. It is proved constructor by constructor
and group by group for all rows of both tables. `OptionSwitches` follows: an option switches
what it is about and nothing else, whatever the cases of the other options do. `TypeInv` adds to `TypeOK` the ranges of the three options
whose default depends on their being undecided (`missing_args`, `relative_paths`,
`implied_dirs`). Counts of letters are not bounded, everything else fits 32 bits.
`OptionsAssumption` asks that lines are made of words, that -1 and 27 (the smallest
and the largest number the program sets by itself) fit, and that levels are natural numbers.

Two statements were corrected on the way. `TypeOK` had bounded the options that
count letters, which no check in the code does; and `DaemonStartsOver` had said that the
letter which makes the parser panic is no text of another option by looking
at the word alone, which is wrong for `--daemon -vT src`. It now speaks of the
options that are given. `OperandsSurvive` and `LastOptionWins` used to compare
sequences built with `SelectSeq`, and are now stated by places and order, as the
provers need it.

Only model-checked:

* all liveness, and `OnlyAnAbandonedReadHangs`, which uses ENABLED: the provers
  handle neither;
* `DaemonStartsOver`: it compares the names in both tables, and those of opposites
  are put together (`"no-" \o n`), of which the provers cannot say that they differ;
* `UnreadableIsZeros`: it would need an invariant of its own about what the window
  holds after each failed read;
* `SpellingDoesNotMatter`: it is about two parses, of the line and of its long
  form, in `MCOptions`.

## What the checks found

Five places where a comment or message says something else than the code does.

* `hash_search_changed`: "file has changed mid-transfer"
  (rsyncsender/fileio.go:108) is reported for unchanged files. The rolling update
  asks for all bytes since the last match (rsyncsender/match.go:161-170), of which
  near the end of the file none are flushed any more (line 185). Once that is more
  than the default window, the window is enlarged to an aligned length
  (fileio.go:67-69) that may exceed the file, and the read fails; the update then
  indexes an empty slice.
* `sender_skips`: "OpenFile() failed. Log the error (server side only) and
  proceed." (rsyncsender/sender.go:89) is the treatment of every PathError, also of
  one in the middle of a file.
* `sender_search`: "fast path: send the whole file" (rsyncsender/sender.go:82): the
  other path does not send the same file. It opens the Path of the entry, which is
  `/` for every entry (rsyncsender/flist.go:69), and answers with as many zero bytes
  as Stat tells of the directory and a md4 that matches them, or panics.
* `flist_links`: "11. if a symbolic link and -l, the link target's length"
  (rsyncsender/flist.go:177). When the link cannot be read, the entry stays in
  the buffer without length and target, and the receiver takes the next entry
  for them. The same happens with a checksum that cannot be computed, where the
  error is also forgotten at the next file. Both calls use the entry's name as a
  path of the local file system, not `st.Files`.
* `flist_includes`: "set include flag" (rsyncsender/exclude.go:98): nothing reads
  the flag, so an include rule excludes what it names.

`Disagree` in `FileList` names what else the two formats of this package do not
agree on: an upload with `-c`, whose checksums `receiveFileEntry` does not read,
and special files under only one of `--devices` and `--specials`.

`OnlyAnAbandonedReadHangs` and `PanicNeedsCause` state the two ways in which the
modelled code ends badly by design: `Do` waits for a generator that nobody will
ever read from again, and the rolling update indexes a slice that a failed read
left empty.

What `Failed` in `Session`, the rows in `Options` and `Receiver` show besides:

* The `err` of a failed filter list in an upload, and that of a failed negotiation
  in both directions, never reaches the deferred function (it is declared anew in
  the block, rsyncreceiver/client.go:88): the client sees the connection end and
  no message. `FailureIsHeard` names the case.
* Files are deleted in a dry run too (rsyncreceiver/do.go:23).
* "receiving data failed, continuing" (rsyncreceiver/receiver.go:57) is logged, and
  the error is returned two lines later, so the transfer ends (`Receiver`).
* A message of type info is logged and then refused like an unknown one
  (rsyncwire/wire.go:78-84). A file list is one message, whatever its length, so
  a list longer than 256 KiB is refused by the package's own reader.
* `--rsh= src` takes `src` for the text of `--rsh`. A long name may be written with
  one dash, so `-zl`, `-zc`, `-cc` and `-del` are no clusters. `--` is an error.
* In the daemon's table `-v` and `-h` panic, since their rows hold a number where
  a pointer is expected, and with them `-version`, `-hard-links` and
  `-human-readable`, which that table does not know; the case for `v` (rsyncopts/rsyncopts.go:743) is never reached.
* `--info` is read before the verbosity that follows from `-v`, which overwrites it;
  `--info=none` changes nothing. `--delete-before`, `--delete-after` and
  `--delete-excluded` do not set `delete_mode`. `--help`, `--no-iconv`,
  `--modify-window` and `--crtimes` have no case and are refused.

## Not modelled, and the plan

Every part with state and control is modelled but for what is listed here, and every
safety property that holds is proved but for the four above.

Left out: `listOnly` (rsyncreceiver/transfer.go), since `ClientRun` always sets a
destination; the counting reader and writer, which only add numbers for the
statistics; 64-bit integers as two words (`WriteInt64`), which are single values
in the models; `FileMode`, of which the receiver asks only whether an entry is a
regular file (the constant `Regular` of `Receiver`).

Left out for good: the file system behind `utils.FS` and the rsync client, which
are not part of this repository and are modelled only as far as the code uses
them; md4, whose collisions the models exclude; logging; the byte layout of
checksums.
