----------------------------- MODULE MCOptions ------------------------------
(* Small instances of Options for TLC.  When a line is done, the parser    *)
(* reads it once more, spelled out.                                        *)
EXTENDS Options

VARIABLE first   (* what the first reading came to                         *)

MCMinInt32 == -100

MCNumbers == (<<"7">> :> 7) @@ (<<"-", "7">> :> -7) @@ (<<"101">> :> 101)

MCLevels == ("NAME0" :> [name |-> "name", level |-> 0]) @@ ("all2" :> [name |-> "all", level |-> 2])
         @@ ("none" :> [name |-> "none", level |-> 0])

Written(name)       == IF name \in DOMAIN Letters THEN Letters[name] ELSE <<name>>
Long(name)          == Word(2, Written(name))
OneDash(name)       == Word(1, Written(name))
Equals(name, texts) == Word(2, Written(name) \o <<"=">> \o texts)
Short(letters)      == Word(1, letters)
Plain(name)         == Word(0, <<name>>)

Pool == {
  Plain("src"), Plain("7"), Short(<<>>), Word(0, <<>>),
  Short(<<"a">>), Short(<<"v", "l", "o", "D">>), Short(<<"v", "T", "a">>), Short(<<"T", "=", "a">>),
  Short(<<"T">>), Short(<<"v", "Q">>), Short(<<"v", "=", "7">>), Short(<<"z", "l">>), Short(<<"7">>),
  Long("no-links"), Long("no-D"), Long("verbose"), Long("delete"), Long("recursive"), Long("no-recursive"),
  Long("rsh"), Equals("rsh", <<>>), Equals("rsh", <<"x">>), Long("server"), Long("sender"), Long("foo"),
  Equals("protocol", <<"101">>), Equals("links", <<"7">>), Long("daemon"), Equals("info", <<"NAME0", "none">>)}

(* Every option of either table, with a text and without, and every one of *)
(* both behind the word that asks for a daemon.                            *)
Names(t) == UNION {r.long : r \in Tables[t]}

Alone(t, before) ==
  {before \o <<Long(n)>> : n \in Names("main")} \cup {before \o <<OneDash(n)>> : n \in Names("main")}
    \cup {before \o <<Equals(n, <<"7">>)>> : n \in Names(t)}
    \cup {before \o <<Short(<<c>>), Plain("src")>> : c \in UNION {r.short : r \in Tables[t]}}

MCLines == UNION {[1 .. n -> Pool] : n \in 0 .. 3} \cup Alone("main", <<>>) \cup Alone("daemon", <<Long("daemon")>>)

(* One option to a word, with what follows it behind an equals sign.       *)
SpelledWord(w, next) ==
  LET n    == SelectInSeq([k \in 1 .. Len(w.chars) |-> k],
                LAMBDA k : (k < Len(w.chars) /\ w.chars[k + 1] = "=")
                             \/ \E r \in ShortOption("main", w.chars[k]) : Takes(r))
      last == IF n = 0 THEN Len(w.chars) ELSE n
      rest == IF last < Len(w.chars) THEN <<"=">> \o Trim(SubSeq(w.chars, last + 1, Len(w.chars)))
              ELSE IF next # <<>> THEN <<"=">> \o next ELSE <<>>
  IN  IF ~IsOption(w) THEN <<w>>
      ELSE IF LongOption("main", w) # {} \/ w.dashes > 1
      THEN <<IF next = <<>> THEN w ELSE Word(w.dashes, Before(w) \o <<"=">> \o next)>>
      ELSE [k \in 1 .. last |-> Word(1, <<w.chars[k]>> \o IF k = last THEN rest ELSE <<>>)]

Spelled ==
  FlattenSeq([i \in 1 .. Len(line) |->
    IF i \in Swallowed("main") THEN <<>>
    ELSE SpelledWord(line[i], IF Asks("main", line[i]) /\ i < Len(line) THEN TextOf(line[i + 1]) ELSE <<>>)])

Nothing == [status |-> "none"]

MCInit == Init /\ first = Nothing

ReadAgain ==
  /\ status # "parsing" /\ first = Nothing /\ Word(0, <<>>) \notin ToSet(line)
  /\ first' = [status |-> status, o |-> o, info |-> info, remaining |-> remaining]
  /\ line' = Spelled /\ args' = line' /\ table' = "main" /\ cluster' = <<>>
  /\ o' = NewOptions /\ info' = [w \in InfoWords |-> 0] /\ remaining' = <<>> /\ status' = "parsing"

MCNext == (Next /\ UNCHANGED first) \/ ReadAgain

MCSpec == MCInit /\ [][MCNext]_<<vars, first>>

(* It does not matter how options are spelled: in a cluster or one to a    *)
(* word, with a text in the same word, behind an equals sign or in the     *)
(* next word, a line means the same.  (A line with an empty word is not    *)
(* read again: it can be a text only as a word of its own.)                *)
SpellingDoesNotMatter ==
  first # Nothing /\ status # "parsing" =>
    /\ (status = "ok") = (first.status = "ok") /\ (status = "panic") = (first.status = "panic")
    /\ status = "ok" => <<o, info, remaining>> = <<first.o, first.info, first.remaining>>
=============================================================================
