------------------------------ MODULE FileList ------------------------------
(***************************************************************************)
(* The file list: how SendFileList of rsyncsender/flist.go and the filter  *)
(* rules of exclude.go make it, how ReceiveFileList of                     *)
(* rsyncreceiver/flist.go reads it, and how each side sorts it.            *)
(*                                                                         *)
(* In a download the package encodes and the rsync client decodes; in an   *)
(* upload the client encodes, with all the abbreviations of the format,    *)
(* and the package decodes.  The client is external: it writes and reads   *)
(* the optional fields under the conditions under which SendFileList       *)
(* writes them.                                                            *)
(*                                                                         *)
(* On the wire a field is its width and its value; permission bits are left*)
(* out, a file checksum has no value.  Names are sequences of characters,  *)
(* because the format shares their prefixes and both sides order them.     *)
(***************************************************************************)
EXTENDS Integers, Sequences, FiniteSets, SequencesExt

CONSTANTS
  Listings,    (* what Files.List may return, path by path                 *)
  Uploads,     (* the lists a client may send                              *)
  FilterLines, (* the filter lines a client may send                       *)
  Options,     (* the options of both sides                                *)
  IdLists,     (* the ids a client may name in an id list                  *)
  PathMax,     (* PATH_MAX                                                 *)
  TimeLimit,   (* 2^31: the modification time is written as an int32       *)
  Faults       (* which failures may happen, see Fault                     *)

(* "list": Files.List fails   "readlink": os.Readlink fails   "checksum":  *)
(* FileChecksum fails   "cut": the connection ends within the list.        *)
Fault == {"list", "readlink", "checksum", "cut"}

(* Characters, in the order of their codes; letters come after them.       *)
Nul   == 0
Bang  == 1
Star  == 2
Dot   == 3
Slash == 4

Mode == {"dir", "reg", "link", "chr", "blk", "fifo", "sock"}
IsDev(m)     == m \in {"chr", "blk"}
IsSpecial(m) == m \in {"fifo", "sock"}

Info == [name : Seq(Nat), length : Nat, time : Int, mode : Mode,
         uid : Nat, gid : Nat, rdev : Nat, link : Seq(Nat), sum : {0}]

ASSUME FileListAssumption ==
  /\ \A l \in Listings : l \in Seq(Seq(Info))
  /\ Uploads \subseteq Seq({i \in Info : i.time \in -TimeLimit .. TimeLimit - 1})
  /\ \A l \in FilterLines : l \in Seq([prefix : {"", "- ", "+ "}, text : Seq(Nat)])
  /\ Options \subseteq [uid : BOOLEAN, gid : BOOLEAN, devices : BOOLEAN,
                        specials : BOOLEAN, links : BOOLEAN, checksum : BOOLEAN]
  /\ IdLists \subseteq Seq(Nat \ {0})
  /\ PathMax \in Nat \ {0, 1} /\ TimeLimit \in Nat \ {0}
  /\ Faults \subseteq Fault

VARIABLES
  upload,      (* the direction                                            *)
  opts,
  lines, rules,            (* filter lines to come, l.Filters              *)
  listing,     (* what is left to encode, path by path                     *)
  pc,          (* where the encoder is                                     *)
  err,         (* SendFileList: the error that its last line looks at      *)
  fec,         (* the buffer of encoded fields                             *)
  encoded,     (* history: the entries of fileList.Files, as listed        *)
  abandoned,   (* history: those of which only a part was encoded          *)
  files,       (* fileList.Files, sorted                                   *)
  in,          (* what the decoder has still to read                       *)
  cut,         (* history: the connection ended within the list            *)
  at,          (* where the decoder is                                     *)
  flags, l1, l2,           (* of the entry being read                      *)
  f, last,     (* the entry being read and the one before                  *)
  fileList,    (* the entries read, sorted at the end                      *)
  ioErrors

encVars == <<lines, rules, listing, pc, err, fec, encoded, abandoned, files>>
decVars == <<at, flags, l1, l2, f, last, fileList, ioErrors>>
vars    == <<upload, opts, encVars, in, cut, decVars>>

-----------------------------------------------------------------------------
(* Names.                                                                  *)

(* The parts between slashes.                                              *)
Split(name) ==
  LET next(a, c) == IF c = Slash THEN Append(a, <<>>)
                    ELSE [a EXCEPT ![Len(a)] = Append(@, c)]
  IN  FoldLeft(next, <<<<>>>>, name)

(* filepath.Clean writes a name part by part.  out is what it has written, *)
(* and of that ups characters are ".." that no other ".." can take back.   *)
CleanPart(rooted, c) ==
  LET join == IF c.out = <<>> THEN c.part ELSE c.out \o <<Slash>> \o c.part
      ends == {n \in c.ups .. Len(c.out) - 1 : n = c.ups \/ c.out[n + 1] = Slash}
  IN  IF c.part \in {<<>>, <<Dot>>} THEN c
      ELSE IF c.part # <<Dot, Dot>> THEN [c EXCEPT !.out = join]
      ELSE IF ends # {} THEN [c EXCEPT !.out = SubSeq(@, 1, CHOOSE m \in ends : \A n \in ends : n <= m)]
      ELSE IF rooted THEN c
      ELSE [c EXCEPT !.out = join, !.ups = Len(join)]

Clean(name) ==
  LET rooted == name # <<>> /\ name[1] = Slash
      read[n \in 0 .. Len(name)] ==
        IF n = 0 THEN [out |-> <<>>, ups |-> 0, part |-> <<>>]
        ELSE IF name[n] # Slash THEN [read[n - 1] EXCEPT !.part = Append(@, name[n])]
        ELSE [CleanPart(rooted, read[n - 1]) EXCEPT !.part = <<>>]
      body == CleanPart(rooted, read[Len(name)]).out
  IN  IF rooted THEN <<Slash>> \o body ELSE IF body = <<>> THEN <<Dot>> ELSE body

(* filepath.Base.                                                          *)
Base(name) ==
  LET parts == SelectSeq(Split(name), LAMBDA p : p # <<>>)
  IN  IF name = <<>> THEN <<Dot>> ELSE IF parts = <<>> THEN <<Slash>> ELSE Last(parts)

Less(s, t) ==
  \E n \in 0 .. Len(s) :
    /\ n < Len(t) /\ SubSeq(s, 1, n) = SubSeq(t, 1, n)
    /\ n < Len(s) => s[n + 1] < t[n + 1]

(* All that sort.Slice by name may make of s: it is not stable.            *)
Sorted(s) ==
  LET order == {p \in [DOMAIN s -> DOMAIN s] : \A i, j \in DOMAIN s : i < j =>
                  p[i] # p[j] /\ ~Less(s[p[j]].name, s[p[i]].name)}
  IN  {[i \in DOMAIN s |-> s[p[i]]] : p \in order}

-----------------------------------------------------------------------------
(* Filter rules.                                                           *)

(* The prefix is cut off; a "!" stays part of the pattern.                 *)
ParseFilter(line) == [include |-> line.prefix = "+ ", pattern |-> line.text]

(* The rule that addRule keeps of a line.                                  *)
Rule(line) ==
  LET fr == ParseFilter(line)
      directory == fr.pattern # <<>> /\ Last(fr.pattern) = Slash
      pattern == IF directory THEN Front(fr.pattern) ELSE fr.pattern
  IN  [include |-> fr.include, pattern |-> pattern, wild |-> Contains(pattern, Star)]

RuleMatches(rule, name) ==
  rule.pattern = IF Contains(rule.pattern, Slash) THEN name ELSE Base(name)

(* The first rule that matches leaves the name out; a wildcard on the way  *)
(* to it panics.                                                           *)
Verdict(name) ==
  LET stops == {i \in DOMAIN rules : rules[i].wild \/ RuleMatches(rules[i], name)}
      first == CHOOSE i \in stops : \A j \in stops : i <= j
  IN  IF stops = {} THEN "keep" ELSE IF rules[first].wild THEN "panic" ELSE "leave"

ReadRule ==
  /\ pc = "filter"
  /\ IF lines = <<>> THEN pc' = "list" /\ UNCHANGED <<lines, rules>>
     ELSE rules' = Append(rules, Rule(Head(lines))) /\ lines' = Tail(lines) /\ UNCHANGED pc
  /\ UNCHANGED <<upload, opts, listing, err, fec, encoded, abandoned, files, in, cut, decVars>>

-----------------------------------------------------------------------------
(* The wire format.                                                        *)
Field(w, v) == [w |-> w, v |-> v]
EndOfList   == Field("byte", {})

(* What follows the name of an entry, in this order.                       *)
Attributes == <<"length", "time", "mode", "uid", "gid", "rdev", "link", "sum">>

Width(s) == CASE s = "length" -> "long" [] s = "link" -> "string" [] s = "sum" -> "md4"
              [] OTHER -> "int"

(* Whether an entry of that mode has the attribute; the attributes that    *)
(* flags name are the same as those of the entry before and left out.      *)
Sends(s, mode) ==
  CASE s = "uid"  -> opts.uid
    [] s = "gid"  -> opts.gid
    [] s = "rdev" -> (opts.devices /\ IsDev(mode)) \/ (opts.specials /\ IsSpecial(mode))
    [] s = "link" -> opts.links /\ mode = "link"
    [] s = "sum"  -> opts.checksum
    [] OTHER      -> TRUE

(* Variant of Reads: special files have no device.                         *)
ReadsDevices(s, mode) ==
  CASE s = "rdev" /\ upload -> opts.devices /\ IsDev(mode)
    [] s = "sum" /\ upload  -> FALSE
    [] OTHER -> Sends(s, mode)

(* The receiver's conditions.                                              *)
Reads(s, mode) ==
  CASE s = "rdev" /\ upload -> opts.devices /\ (IsDev(mode) \/ IsSpecial(mode))
    [] s = "sum" /\ upload  -> FALSE
    [] OTHER -> Sends(s, mode)

(* The fields of the attributes from each one on, but for those left out.  *)
AttributesFrom(e, omitted) ==
  LET from[k \in 1 .. Len(Attributes) + 1] ==
        IF k > Len(Attributes) THEN <<>>
        ELSE LET s == Attributes[k]
             IN  (IF Sends(s, e.mode) /\ s \notin omitted THEN <<Field(Width(s), e[s])>> ELSE <<>>)
                   \o from[k + 1]
  IN  from

(* An entry whose name starts with the first n characters of the one       *)
(* before, without the attributes in missing.                              *)
Entry(e, F, n, missing) ==
  LET name == SubSeq(e.name, n + 1, Len(e.name))
  IN  <<Field("byte", F)>>
        \o (IF "name" \in F THEN <<Field("byte", n)>> ELSE <<>>)
        \o <<Field(IF "long" \in F THEN "int" ELSE "byte", Len(name)), Field("bytes", name)>>
        \o AttributesFrom(e, F \cup missing)[1]

(* Pairs of an id and its name, and the id 0.                             *)
IdList(ids) ==
  [j \in 1 .. 2 * Len(ids) + 1 |->
     IF j % 2 = 0 THEN Field("id name", 0)
     ELSE Field("int", IF j < 2 * Len(ids) THEN ids[(j + 1) \div 2] ELSE 0)]

(* The end of the list, the id lists, and the I/O error flag.              *)
Trailer(users, groups, errors) ==
  <<EndOfList>> \o (IF opts.uid THEN IdList(users) ELSE <<>>)
    \o (IF opts.gid THEN IdList(groups) ELSE <<>>) \o <<Field("int", errors)>>

(* The whole list is one write.                                            *)
Write(fields) == fec' = fields /\ in' = fields

(* The connection ends: the package does not get all filter lines, or the  *)
(* decoder nothing more of the list.                                       *)
Cut ==
  /\ "cut" \in Faults /\ ~cut /\ cut' = TRUE
  /\ \/ pc \in {"filter", "client"} /\ pc' = "failed" /\ UNCHANGED in
     \/ pc = "sent" /\ in # <<>> /\ in' = <<>> /\ UNCHANGED pc
  /\ UNCHANGED <<upload, opts, lines, rules, listing, err, fec, encoded, abandoned, files,
                 decVars>>

-----------------------------------------------------------------------------
(* SendFileList, and the sort that follows it in Do.                       *)

Int32(t) == ((t + TimeLimit) % (2 * TimeLimit)) - TimeLimit

Stub    == 1000  (* stat.go: the owner, group and device of every file     *)
DirSize == 4096

(* What is sent of a file, but for the width of the time.                  *)
Listed(i) ==
  [i EXCEPT !.name = IF @ = <<Slash>> THEN <<Dot>> ELSE @,
            !.length = IF i.mode = "dir" THEN DirSize ELSE @,
            !.uid = Stub, !.gid = Stub, !.rdev = Stub]

OpenPath ==
  /\ pc = "list" /\ listing # <<>>
  /\ \/ pc' = "entries" /\ err' = FALSE
     \/ "list" \in Faults /\ pc' = "failed" /\ UNCHANGED err
  /\ UNCHANGED <<upload, opts, lines, rules, listing, fec, encoded, abandoned, files,
                 in, cut, decVars>>

(* One entry.  When the target of a link or the checksum of a file cannot  *)
(* be had, the loop goes on to the next entry; only the failed checksum is *)
(* remembered, and forgotten at the next that can be computed.             *)
EncodeEntry ==
  /\ pc = "entries" /\ Head(listing) # <<>>
  /\ LET e == Listed(Head(Head(listing)))
         F == {"long"} \cup (IF e.name = <<Dot>> THEN {"top"} ELSE {})
         sums == opts.checksum /\ e.mode = "reg"
         Add(missing) ==
           /\ encoded' = Append(encoded, e)
           /\ fec' = fec \o Entry([e EXCEPT !.time = Int32(@)], F, 0, missing)
           /\ abandoned' = IF missing = {} THEN abandoned
                           ELSE abandoned \cup {Len(encoded')}
     IN  \/ /\ Verdict(e.name) = "panic"
            /\ pc' = "panic" /\ UNCHANGED <<err, fec, encoded, abandoned>>
         \/ /\ Verdict(e.name) = "leave"
            /\ UNCHANGED <<pc, err, fec, encoded, abandoned>>
         \/ /\ Verdict(e.name) = "keep"
            /\ \/ Add({}) /\ err' = (err /\ ~sums)
               \/ /\ Sends("link", e.mode) /\ "readlink" \in Faults
                  /\ Add({"link", "sum"}) /\ UNCHANGED err
               \/ sums /\ "checksum" \in Faults /\ Add({"sum"}) /\ err' = TRUE
            /\ UNCHANGED pc
  /\ listing' = [listing EXCEPT ![1] = Tail(@)]
  /\ UNCHANGED <<upload, opts, lines, rules, files, in, cut, decVars>>

ClosePath ==
  /\ pc = "entries" /\ Head(listing) = <<>>
  /\ pc' = IF err THEN "failed" ELSE "list"
  /\ listing' = Tail(listing)
  /\ UNCHANGED <<upload, opts, lines, rules, err, fec, encoded, abandoned, files,
                 in, cut, decVars>>

(* Variant of SendList: without the sort in Do.                            *)
SendListUnsorted ==
  /\ pc = "list" /\ listing = <<>>
  /\ Write(fec \o Trailer(<<>>, <<>>, 0))
  /\ files' = encoded
  /\ pc' = "sent"
  /\ UNCHANGED <<upload, opts, lines, rules, listing, err, encoded, abandoned, cut, decVars>>

SendList ==
  /\ pc = "list" /\ listing = <<>>
  /\ Write(fec \o Trailer(<<>>, <<>>, 0))
  /\ files' \in Sorted(encoded)
  /\ pc' = "sent"
  /\ UNCHANGED <<upload, opts, lines, rules, listing, err, encoded, abandoned, cut, decVars>>

Send == ReadRule \/ OpenPath \/ EncodeEntry \/ ClosePath \/ SendList

-----------------------------------------------------------------------------
(* External: the client's list in an upload.  It may leave out what is the *)
(* same as in the entry before, and shares name prefixes as it likes.      *)

(* A value that was not sent counts as 0.                                  *)
Known(e) ==
  [e EXCEPT !.uid  = IF Sends("uid", e.mode) THEN @ ELSE 0,
            !.gid  = IF Sends("gid", e.mode) THEN @ ELSE 0,
            !.rdev = IF Sends("rdev", e.mode) THEN @ ELSE 0,
            !.link = IF Sends("link", e.mode) THEN @ ELSE <<>>]

ClientEntry ==
  /\ pc = "client" /\ Head(listing) # <<>>
  /\ LET e == Head(Head(listing))
         before == encoded # <<>>
         same == {s \in {"time", "mode", "uid", "gid", "rdev"} :
                    before /\ Sends(s, e.mode) /\ Known(Last(encoded))[s] = e[s]}
         shared == {n \in 1 .. Len(e.name) :
                      before /\ n <= Len(Last(encoded).name)
                      /\ \A i \in 1 .. n : Last(encoded).name[i] = e.name[i]}
     IN  \E F \in SUBSET same, width \in {"long", "top"}, n \in {0} \cup shared :
           fec' = fec \o Entry(e, F \cup {width} \cup (IF n > 0 THEN {"name"} ELSE {}), n, {})
  /\ encoded' = Append(encoded, Head(Head(listing)))
  /\ listing' = <<Tail(Head(listing))>>
  /\ UNCHANGED <<upload, opts, lines, rules, pc, err, abandoned, files, in, cut, decVars>>

ClientList ==
  /\ pc = "client" /\ Head(listing) = <<>>
  /\ \E users, groups \in IdLists, errors \in {0, 1} :
       Write(fec \o Trailer(users, groups, errors))
  /\ files' \in Sorted(encoded)
  /\ pc' = "sent"
  /\ UNCHANGED <<upload, opts, lines, rules, listing, err, encoded, abandoned, cut, decVars>>

-----------------------------------------------------------------------------
(* ReceiveFileList.                                                        *)

(* A new ReceiverFile; its mode is not used before it is read.             *)
Blank == [name |-> <<>>, length |-> 0, time |-> 0, mode |-> "reg", uid |-> 0, gid |-> 0,
          rdev |-> 0, link |-> <<>>, sum |-> 0]

Over == {"done", "err", "lost"}

(* The next field, if it has the width that the decoder expects.           *)
Take(w) == in # <<>> /\ Head(in).w = w /\ in' = Tail(in)
Value   == Head(in).v

sending == <<upload, opts, encVars, cut>>

(* Variant of AfterEntries: the group list only after a user list.         *)
AfterEntriesUsers == IF opts.uid THEN "users" ELSE "ioErrors"

(* The status byte of an entry, or the end of the entries.                 *)
AfterEntries == IF opts.uid THEN "users" ELSE IF opts.gid THEN "groups" ELSE "ioErrors"

ReadFlags ==
  /\ at = "flags" /\ Take("byte")
  /\ IF Value = {}
     THEN /\ fileList' \in Sorted(fileList) /\ at' = AfterEntries
          /\ UNCHANGED <<flags, l1, f>>
     ELSE /\ flags' = Value /\ l1' = 0 /\ f' = Blank
          /\ at' = IF "name" \in Value THEN "shared" ELSE "size"
          /\ UNCHANGED fileList
  /\ UNCHANGED <<sending, l2, last, ioErrors>>

ReadShared ==
  /\ at = "shared" /\ Take("byte")
  /\ l1' = Value /\ at' = "size"
  /\ UNCHANGED <<sending, flags, l2, f, last, fileList, ioErrors>>

SizeWidth == IF "long" \in flags THEN "int" ELSE "byte"

(* Variant of TooLong: one character too many.                             *)
TooLongByOne(l) == l > PathMax - l1

TooLong(l) == l >= PathMax - l1

ReadSize ==
  /\ at = "size" /\ Take(SizeWidth)
  /\ l2' = Value
  /\ at' = IF TooLong(Value) THEN "err" ELSE "name"
  /\ UNCHANGED <<sending, flags, l1, f, last, fileList, ioErrors>>

(* Variant of ReadName: the shared part is not copied.                     *)
ReadNameUnshared ==
  /\ at = "name" /\ Take("bytes") /\ Len(Value) = l2
  /\ f' = [f EXCEPT !.name = Clean([i \in 1 .. l1 |-> Nul] \o Value)]
  /\ at' = Head(Attributes)
  /\ UNCHANGED <<sending, flags, l1, l2, last, fileList, ioErrors>>

(* The shared part comes from the name as the entry before keeps it; where *)
(* that is shorter, the buffer stays zero.                                 *)
ReadName ==
  /\ at = "name" /\ Take("bytes") /\ Len(Value) = l2
  /\ LET shared == [i \in 1 .. l1 |-> IF i <= Len(last.name) THEN last.name[i] ELSE Nul]
     IN  f' = [f EXCEPT !.name = Clean(shared \o Value)]
  /\ at' = Head(Attributes)
  /\ UNCHANGED <<sending, flags, l1, l2, last, fileList, ioErrors>>

(* An attribute is skipped, the same as that of the entry before, or read. *)
ReadAttribute ==
  \E i \in DOMAIN Attributes :
    LET s == Attributes[i]
    IN  /\ at = s
        /\ \/ ~Reads(s, f.mode) /\ UNCHANGED <<in, f>>
           \/ /\ Reads(s, f.mode) /\ s \in flags
              /\ f' = [f EXCEPT ![s] = last[s]] /\ UNCHANGED in
           \/ /\ Reads(s, f.mode) /\ s \notin flags
              /\ Take(Width(s)) /\ f' = [f EXCEPT ![s] = Value]
        /\ IF i < Len(Attributes)
           THEN at' = Attributes[i + 1] /\ UNCHANGED <<last, fileList>>
           ELSE at' = "flags" /\ last' = f' /\ fileList' = Append(fileList, f')
        /\ UNCHANGED <<sending, flags, l1, l2, ioErrors>>

(* RecvIdList: pairs of an id and a name until the id 0.  The lists are    *)
(* dropped.                                                                *)
ReadIds ==
  /\ at \in {"users", "groups"} /\ Take("int")
  /\ at' = IF Value # 0 THEN IF at = "users" THEN "user name" ELSE "group name"
           ELSE IF at = "users" /\ opts.gid THEN "groups" ELSE "ioErrors"
  /\ UNCHANGED <<sending, flags, l1, l2, f, last, fileList, ioErrors>>

ReadIdName ==
  /\ at \in {"user name", "group name"} /\ Take("id name")
  /\ at' = IF at = "user name" THEN "users" ELSE "groups"
  /\ UNCHANGED <<sending, flags, l1, l2, f, last, fileList, ioErrors>>

ReadIoErrors ==
  /\ at = "ioErrors" /\ Take("int")
  /\ ioErrors' = Value /\ at' = "done"
  /\ UNCHANGED <<sending, flags, l1, l2, f, last, fileList>>

(* The width of what is read next, "" if nothing is.                       *)
Expected ==
  CASE at \in {"flags", "shared"} -> "byte"
    [] at = "size" -> SizeWidth
    [] at = "name" -> "bytes"
    [] at \in {"users", "groups", "ioErrors"} -> "int"
    [] at \in {"user name", "group name"} -> "id name"
    [] at \in ToSet(Attributes) ->
         IF Reads(at, f.mode) /\ at \notin flags THEN Width(at) ELSE ""
    [] OTHER -> ""

(* The stream ended, or the encoder gave up and sends nothing.             *)
ReadFails ==
  /\ pc \in {"sent", "failed", "panic"}
  /\ in = <<>> /\ Expected # ""
  /\ at' = "err"
  /\ UNCHANGED <<sending, in, flags, l1, l2, f, last, fileList, ioErrors>>

(* The decoder reads bytes that were written as something else.  What it   *)
(* makes of them is not followed.                                          *)
LosesStep ==
  /\ in # <<>> /\ Expected # ""
  /\ \/ Head(in).w # Expected
     \/ at = "name" /\ Len(Value) # l2
  /\ at' = "lost"
  /\ UNCHANGED <<sending, in, flags, l1, l2, f, last, fileList, ioErrors>>

Receive == ReadFlags \/ ReadShared \/ ReadSize \/ ReadName \/ ReadAttribute
             \/ ReadIds \/ ReadIdName \/ ReadIoErrors \/ ReadFails \/ LosesStep

-----------------------------------------------------------------------------
Init ==
  /\ upload \in BOOLEAN /\ opts \in Options
  /\ IF upload THEN pc = "client" /\ lines = <<>> /\ \E l \in Uploads : listing = <<l>>
     ELSE pc = "filter" /\ lines \in FilterLines /\ listing \in Listings
  /\ rules = <<>> /\ err = FALSE /\ fec = <<>> /\ encoded = <<>> /\ abandoned = {}
  /\ files = <<>> /\ in = <<>> /\ cut = FALSE
  /\ at = "flags" /\ flags = {} /\ l1 = 0 /\ l2 = 0
  /\ f = Blank /\ last = Blank /\ fileList = <<>> /\ ioErrors = 0

Stops == at \in Over /\ UNCHANGED vars

Next == Send \/ ClientEntry \/ ClientList \/ Cut \/ Receive \/ Stops

Spec == Init /\ [][Next]_vars

-----------------------------------------------------------------------------
(* Properties.                                                             *)

(* Type invariant: in particular times fit an int32 and the names that     *)
(* receiveFileEntry builds are shorter than PATH_MAX.                      *)
TypeOK ==
  /\ upload \in BOOLEAN /\ opts \in Options
  /\ pc \in {"client", "filter", "list", "entries", "sent", "failed", "panic"}
  /\ err \in BOOLEAN /\ cut \in BOOLEAN /\ abandoned \subseteq DOMAIN encoded
  /\ at \in {"flags", "shared", "size", "name", "users", "user name", "groups",
             "group name", "ioErrors"} \cup ToSet(Attributes) \cup Over
  /\ encoded \in Seq(Info) /\ files \in Seq(Info)
  /\ \A e \in ToSet(fileList) \cup {f, last} :
       e \in Info /\ Len(e.name) < PathMax /\ e.time \in -TimeLimit .. TimeLimit - 1
  /\ l1 \in Nat /\ l2 \in Nat /\ ioErrors \in Nat

(* What makes the two sides count the fields of an entry differently: an   *)
(* entry that the sender abandoned; in an upload, a checksum, which the    *)
(* package never reads, or the device of a special file, which it reads    *)
(* under another option.                                                   *)
Disagree ==
  \/ abandoned # {}
  \/ upload /\ \E e \in ToSet(encoded) :
       opts.checksum \/ (IsSpecial(e.mode) /\ opts.specials # opts.devices)

(* ReceiveFileList loses its place in the stream only where the formats    *)
(* disagree, and fails only when the stream ends early, when a name is too *)
(* long, or when the encoder sent nothing.                                 *)
BreaksForCause ==
  /\ at = "lost" => Disagree
  /\ at = "err" => \/ cut \/ pc \in {"failed", "panic"}
                   \/ \E e \in ToSet(encoded) : Len(e.name) >= PathMax
                   \/ Disagree

(* What an entry must be decoded to.                                       *)
Decoded(e) ==
  [Known(e) EXCEPT !.name = Clean(@), !.time = Int32(@)]

(* A list that is read to its end is the list that was sent, each entry    *)
(* with its own attributes whether they were sent or inherited, in the     *)
(* order of the names, and the I/O error flag is the sender's.  A client   *)
(* must send clean names, since the shared prefix is taken from the clean  *)
(* form of the name before (rsyncreceiver/flist.go:50).                    *)
ListDecoded ==
  at = "done" /\ ~Disagree =>
    /\ ioErrors = Last(fec).v
    /\ (\A e \in ToSet(encoded) : ~upload \/ Clean(e.name) = e.name) =>
         fileList \in Sorted([i \in DOMAIN encoded |-> Decoded(encoded[i])])

(* The comment in Do: the client sorts, so we need to sort too, in the     *)
(* same way, otherwise our indices do not match.  Names that are clean and *)
(* different have the same index on both sides.                            *)
IndexAgrees ==
  LET names == {e.name : e \in ToSet(encoded)}
  IN  /\ at = "done" /\ ~Disagree
      /\ Cardinality(names) = Len(encoded)
      /\ \A n \in names : Clean(n) = n
      => /\ Len(files) = Len(fileList)
         /\ \A i \in DOMAIN files : files[i].name = fileList[i].name

(* After the list the next thing to read is the first index: nothing of    *)
(* the list, of the id lists or of the error flag is left in the stream.   *)
NothingLeft == at = "done" /\ ~Disagree => in = <<>>

(* The comments of SendFileList number the fields of an entry: 11 and 12,  *)
(* if a symbolic link and -l, are the length of the target and the target. *)
LinksAreWhole ==
  pc = "sent" /\ opts.links /\ ~upload =>
    Cardinality({i \in DOMAIN fec : fec[i].w = "string"})
      = Cardinality({i \in DOMAIN encoded : encoded[i].mode = "link"})

(* parseFilter: "+ " sets the include flag.  A name whose first matching   *)
(* rule is an include is not left out.                                     *)
FirstMatchIncludes(name) ==
  \E i \in DOMAIN rules :
    /\ rules[i].include /\ RuleMatches(rules[i], name)
    /\ \A j \in 1 .. i : ~rules[j].wild /\ (j < i => ~RuleMatches(rules[j], name))

IncludedIsKept ==
  [][EncodeEntry /\ FirstMatchIncludes(Listed(Head(Head(listing))).name)
       => Len(encoded') > Len(encoded)]_vars

=============================================================================
