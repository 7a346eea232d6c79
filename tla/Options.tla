------------------------------ MODULE Options -------------------------------
(***************************************************************************)
(* The command line: a parser that is driven by a table (rsyncopts/popt.go *)
(* poptGetNextOpt), and the options and defaults of rsync                  *)
(* (rsyncopts/rsyncopts.go, ParseArguments).                               *)
(*                                                                         *)
(* A word is some dashes and then tokens.  A long name is one token; in a  *)
(* cluster of short options every letter is one; so is "=".  The names in  *)
(* Letters are written letter by letter.  A text is a sequence of tokens.  *)
(***************************************************************************)
EXTENDS Integers, Sequences, FiniteSets, TLC, SequencesExt

CONSTANTS
  Lines,       (* the command lines to parse                               *)
  gokrazyTable,
  Numbers,     (* the texts that are integers of 64 bits, and which        *)
  MinInt32, MaxInt32,
  Levels       (* the words of --info: their name, in small letters, and   *)
               (* the number behind it, 1 if there is none                 *)

ASSUME OptionsAssumption ==
  /\ Lines \subseteq Seq([dashes : Nat, chars : Seq(STRING)]) /\ gokrazyTable \in BOOLEAN
  /\ MinInt32 \in Int /\ MinInt32 <= -1 /\ MaxInt32 \in Int /\ MaxInt32 >= 27
  /\ \A t \in DOMAIN Levels : Levels[t].level \in Nat

VARIABLES
  line,        (* what is parsed                                           *)
  table,       (* "main" or "daemon"                                       *)
  args,        (* pc.args: the words that are left                         *)
  cluster,     (* pc.nextCharArg: what is left of a cluster                *)
  o,           (* the options                                              *)
  info,        (* the levels of opts.info                                  *)
  remaining,   (* pc.RemainingArgs                                         *)
  status       (* "parsing", or how it ended                               *)

vars == <<line, table, args, cluster, o, info, remaining, status>>

Errors == {"BADOPT", "UNWANTEDARG", "NOARG", "BADNUMBER", "OVERFLOW", "refused"}

(* Tokens with a sign in front of them.                                    *)
Word(dashes, chars) == [dashes |-> dashes, chars |-> chars]

TextOf(w) == [i \in 1 .. w.dashes |-> "-"] \o w.chars

-----------------------------------------------------------------------------
(* The tables.  A row tells what an option sets, if anything, and the case *)
(* of ParseArguments that handles it, if one does.                         *)

Row(long, short, kind, field, val, code) ==
  [long |-> long, short |-> short, kind |-> kind, field |-> field, val |-> val, code |-> code]

(* POPT_ARG_NONE, with or without a pointer; POPT_ARG_VAL; POPT_BIT_SET.   *)
Flag(long, short, field)     == {Row(long, short, "none", field, 1, "")}
Case(long, short, code)      == {Row(long, short, "none", "nil", 0, code)}
Val(long, short, field, val) == {Row(long, short, "none", field, val, "")}
BitSet(long, short, field, val) == {Row(long, short, "or", field, val, "")}

(* An option and, behind "no-", its opposite.                              *)
Toggle(long, short, field, val) ==
  Val(long, short, field, val) \cup Val({"no-" \o n : n \in long \cup short}, {}, field, 0)

(* POPT_ARG_STRING, with and without a pointer; POPT_ARG_INT.              *)
Text(long, short, field)     == {Row(long, short, "text", field, 0, "")}
Asking(long, short, code)    == {Row(long, short, "text", "nil", 0, code)}
Number(long, short, field)   == {Row(long, short, "int", field, 0, "")}

(* The cases that end in an error are not told apart: not implemented,     *)
(* not supported, or missing from the switch.                              *)
OutputOptions ==
       Case({"help"}, {}, "refused") \cup Case({"version"}, {"V"}, "V")
  \cup Case({"verbose"}, {"v"}, "v") \cup Val({"no-verbose", "no-v"}, {}, "verbose", 0)
  \cup Asking({"info"}, {}, "info") \cup Asking({"debug"}, {}, "debug") \cup Asking({"stderr"}, {}, "refused")
  \cup Toggle({"msgs2stderr"}, {}, "msgs2stderr", 1) \cup Case({"quiet"}, {"q"}, "q")
  \cup Toggle({"motd"}, {}, "output_motd", 1) \cup Flag({"stats"}, {}, "do_stats")
  \cup Case({"human-readable"}, {"h"}, "h")
  \cup Val({"no-human-readable", "no-h"}, {}, "human_readable", 0)
  \cup Flag({"dry-run"}, {"n"}, "dry_run") \cup Case({"archive"}, {"a"}, "a")
  \cup Toggle({"recursive"}, {"r"}, "recurse", 2)
  \cup Toggle({"inc-recursive", "i-r"}, {}, "allow_inc_recurse", 1)
  \cup Toggle({"dirs"}, {"d"}, "xfer_dirs", 2) \cup Val({"old-dirs", "old-d"}, {}, "xfer_dirs", 4)

AttributeOptions ==
       Toggle({"perms"}, {"p"}, "preserve_perms", 1)
  \cup Flag({"executability"}, {"E"}, "preserve_executability")
  \cup Case({"acls"}, {"A"}, "refused") \cup Val({"no-acls", "no-A"}, {}, "preserve_acls", 0)
  \cup Case({"xattrs"}, {"X"}, "X") \cup Val({"no-xattrs", "no-X"}, {}, "preserve_xattrs", 0)
  \cup Toggle({"times"}, {"t"}, "preserve_mtimes", 1)
  \cup Case({"atimes"}, {"U"}, "U") \cup Val({"no-atimes", "no-U"}, {}, "preserve_atimes", 0)
  \cup Toggle({"open-noatime"}, {}, "open_noatime", 1)
  \cup {Row({"crtimes"}, {"N"}, "none", "preserve_crtimes", 1, "refused")}
  \cup Val({"no-crtimes", "no-N"}, {}, "preserve_crtimes", 0)
  \cup Toggle({"omit-dir-times"}, {"O"}, "omit_dir_times", 1)
  \cup Toggle({"omit-link-times"}, {"J"}, "omit_link_times", 1)
  \cup {Row({"modify-window"}, {"@"}, "int", "modify_window", 0, "refused")}

OwnerOptions ==
       Toggle({"super"}, {}, "am_root", 2) \cup Val({"fake-super"}, {}, "am_root", -1)
  \cup Toggle({"owner"}, {"o"}, "preserve_uid", 1) \cup Toggle({"group"}, {"g"}, "preserve_gid", 1)
  \cup Case({}, {"D"}, "D") \cup Case({"no-D"}, {}, "no-D")
  \cup Toggle({"devices"}, {}, "preserve_devices", 1) \cup Flag({"copy-devices"}, {}, "copy_devices")
  \cup Toggle({"write-devices"}, {}, "write_devices", 1)
  \cup Toggle({"specials"}, {}, "preserve_specials", 1)

LinkOptions ==
       Toggle({"links"}, {"l"}, "preserve_links", 1) \cup Flag({"copy-links"}, {"L"}, "copy_links")
  \cup Flag({"copy-unsafe-links"}, {}, "copy_unsafe_links") \cup Flag({"safe-links"}, {}, "safe_symlinks")
  \cup Toggle({"munge-links"}, {}, "munge_symlinks", 1)
  \cup Flag({"copy-dirlinks"}, {"k"}, "copy_dirlinks") \cup Flag({"keep-dirlinks"}, {"K"}, "keep_dirlinks")
  \cup Case({"hard-links"}, {"H"}, "H") \cup Val({"no-hard-links", "no-H"}, {}, "preserve_hard_links", 0)
  \cup Toggle({"relative"}, {"R"}, "relative_paths", 1)
  \cup Toggle({"implied-dirs", "i-d"}, {}, "implied_dirs", 1)

UpdateOptions ==
       Asking({"chmod"}, {}, "refused") \cup Flag({"ignore-times"}, {"I"}, "ignore_times")
  \cup Flag({"size-only"}, {}, "size_only") \cup Case({"one-file-system"}, {"x"}, "x")
  \cup Val({"no-one-file-system", "no-x"}, {}, "one_file_system", 0)
  \cup Flag({"update"}, {"u"}, "update_only")
  \cup Flag({"existing", "ignore-non-existing"}, {}, "ignore_non_existing")
  \cup Flag({"ignore-existing"}, {}, "ignore_existing")
  \cup {Row({"max-size"}, {}, "text", "max_size_arg", 0, "refused"),
        Row({"min-size"}, {}, "text", "min_size_arg", 0, "refused")}
  \cup Text({"max-alloc"}, {}, "max_alloc_arg") \cup Toggle({"sparse"}, {"S"}, "sparse_files", 1)
  \cup Flag({"preallocate"}, {}, "preallocate_files") \cup Toggle({"inplace"}, {}, "inplace", 1)
  \cup Case({"append"}, {}, "refused") \cup Val({"append-verify"}, {}, "append_mode", 2)
  \cup Val({"no-append"}, {}, "append_mode", 0)

DeletionOptions ==
       Flag({"del"}, {}, "delete_during") \cup Flag({"delete"}, {}, "delete_mode")
  \cup Flag({"delete-before"}, {}, "delete_before") \cup Val({"delete-during"}, {}, "delete_during", 1) \cup Val({"delete-delay"}, {}, "delete_during", 2)
  \cup Flag({"delete-after"}, {}, "delete_after") \cup Flag({"delete-excluded"}, {}, "delete_excluded")
  \cup BitSet({"delete-missing-args"}, {}, "missing_args", 2)
  \cup BitSet({"ignore-missing-args"}, {}, "missing_args", 1)
  \cup Val({"remove-sent-files"}, {}, "remove_source_files", 2)
  \cup Val({"remove-source-files"}, {}, "remove_source_files", 1)
  \cup Toggle({"force"}, {}, "force_delete", 1) \cup Toggle({"ignore-errors"}, {}, "ignore_errors", 1)
  \cup Number({"max-delete"}, {}, "max_delete") \cup Case({}, {"F"}, "refused")
  \cup Asking({"filter"}, {"f"}, "refused")
  \cup Asking({"exclude", "include", "exclude-from", "include-from"}, {}, "refused")
  \cup Flag({"cvs-exclude"}, {"C"}, "cvs_exclude")

CompareOptions ==
       Toggle({"whole-file"}, {"W"}, "whole_file", 1)
  \cup Toggle({"checksum"}, {"c"}, "always_checksum", 1)
  \cup Text({"checksum-choice", "cc"}, {}, "checksum_choice") \cup Asking({"block-size"}, {"B"}, "refused")
  \cup Asking({"compare-dest", "copy-dest", "link-dest"}, {}, "refused")
  \cup Case({"fuzzy"}, {"y"}, "refused") \cup Val({"no-fuzzy", "no-y"}, {}, "fuzzy_basis", 0)
  \cup Case({"compress"}, {"z"}, "z") \cup Case({"old-compress"}, {}, "old-compress")
  \cup Case({"new-compress"}, {}, "new-compress") \cup Case({"no-compress", "no-z"}, {}, "no-compress")
  \cup Text({"compress-choice", "zc"}, {}, "compress_choice")
  \cup Text({"skip-compress"}, {}, "skip_compress")
  \cup Number({"compress-level", "zl"}, {}, "do_compression_level")

ProgressOptions ==
       Case({}, {"P"}, "P") \cup Toggle({"progress"}, {}, "do_progress", 1) \cup Toggle({"partial"}, {}, "keep_partial", 1)
  \cup Text({"partial-dir"}, {}, "partial_dir") \cup Toggle({"delay-updates"}, {}, "delay_updates", 1)
  \cup Toggle({"prune-empty-dirs"}, {"m"}, "prune_empty_dirs", 1)
  \cup Text({"log-file"}, {}, "logfile_name") \cup Text({"log-file-format"}, {}, "logfile_format")
  \cup Text({"out-format", "log-format"}, {}, "stdout_format")
  \cup Case({"itemize-changes"}, {"i"}, "i")
  \cup Val({"no-itemize-changes", "no-i"}, {}, "itemize_changes", 0)
  \cup {Row({"bwlimit"}, {}, "text", "bwlimit_arg", 0, "refused")}
  \cup Val({"no-bwlimit"}, {}, "bwlimit", 0)
  \cup Val({"backup"}, {"b"}, "make_backups", 1) \cup Val({"no-backup"}, {}, "make_backups", 0)
  \cup Text({"backup-dir"}, {}, "backup_dir") \cup Text({"suffix"}, {}, "backup_suffix")
  \cup Val({"list-only"}, {}, "list_only", 2)
  \cup {Row({"read-batch", "write-batch", "only-write-batch"}, {}, "text", "batch_name", 0, "refused")}
  \cup Text({"files-from"}, {}, "files_from")

ProtectionOptions ==
       Val({"from0"}, {"0"}, "eol_nulls", 1) \cup Val({"no-from0"}, {}, "eol_nulls", 0)
  \cup Case({"old-args"}, {}, "refused") \cup Val({"no-old-args"}, {}, "old_style_args", 0)
  \cup Toggle({"secluded-args"}, {"s"}, "protect_args", 1) \cup Toggle({"protect-args"}, {}, "protect_args", 1)
  \cup Val({"trust-sender"}, {}, "trust_sender", 1) \cup Toggle({"numeric-ids"}, {}, "numeric_ids", 1)
  \cup Asking({"usermap", "groupmap", "chown"}, {}, "refused")
  \cup Number({"timeout"}, {}, "io_timeout") \cup Val({"no-timeout"}, {}, "io_timeout", 0)
  \cup Number({"contimeout"}, {}, "connect_timeout") \cup Val({"no-contimeout"}, {}, "connect_timeout", 0)
  \cup Flag({"fsync"}, {}, "do_fsync") \cup Asking({"stop-after", "time-limit", "stop-at"}, {}, "refused")

RemoteOptions ==
       Text({"rsh"}, {"e"}, "shell_cmd") \cup Text({"rsync-path"}, {}, "rsync_path")
  \cup Text({"iconv"}, {}, "iconv_opt") \cup Case({"no-iconv"}, {}, "refused")
  \cup Toggle({"8-bit-output"}, {"8"}, "allow_8bit_chars", 1) \cup Toggle({"mkpath"}, {}, "mkpath_dest_arg", 1)
  \cup Flag({"qsort"}, {}, "use_qsort") \cup Text({"copy-as"}, {}, "copy_as")
  \cup Text({"password-file"}, {}, "password_file") \cup Text({"early-input"}, {}, "early_input_file")
  \cup Toggle({"blocking-io"}, {}, "blocking_io", 1) \cup Text({"outbuf"}, {}, "outbuf_mode")
  \cup Asking({"remote-option"}, {"M"}, "refused") \cup Number({"checksum-seed"}, {}, "checksum_seed")
  \cup Case({"server"}, {}, "server") \cup Case({"sender"}, {}, "sender")
  \cup Asking({"config", "dparam"}, {}, "daemon") \cup Case({"daemon", "detach", "no-detach"}, {}, "daemon")

ClientOptions ==
  OutputOptions \cup AttributeOptions \cup OwnerOptions \cup LinkOptions \cup UpdateOptions
    \cup DeletionOptions \cup CompareOptions \cup ProgressOptions \cup ProtectionOptions
    \cup RemoteOptions

(* What both tables have.  The numbers of the address families do not      *)
(* matter.                                                                 *)
SharedOptions ==
       Text({"address"}, {}, "bind_address") \cup Number({"port"}, {}, "rsync_port")
  \cup Text({"sockopts"}, {}, "sockopts") \cup Number({"protocol"}, {}, "protocol_version")
  \cup Text({"temp-dir"}, {"T"}, "tmpdir")
  \cup Val({"ipv4"}, {"4"}, "default_af_hint", 4) \cup Val({"ipv6"}, {"6"}, "default_af_hint", 6)

(* The row of --verbose, and a second one of --help that is only found by  *)
(* its short name, have the number 0 in place of a pointer.                *)
DaemonOptions ==
       Case({"help"}, {}, "refused") \cup Number({"bwlimit"}, {}, "daemon_bwlimit")
  \cup Text({"config"}, {}, "config_file") \cup Flag({"daemon"}, {}, "daemon_opt")
  \cup Asking({"dparam"}, {"M"}, "refused")
  \cup Val({"detach"}, {}, "no_detach", 0) \cup Val({"no-detach"}, {}, "no_detach", 1)
  \cup Text({"log-file"}, {}, "logfile_name") \cup Text({"log-file-format"}, {}, "logfile_format")
  \cup Flag({"server"}, {}, "am_server")
  \cup {Row({"verbose"}, {"v"}, "none", "zero", 0, "v"), Row({}, {"h"}, "none", "zero", 0, "refused")}
  \cup Val({"no-verbose", "no-v"}, {}, "verbose", 0)

GokrazyOptions ==
  IF ~gokrazyTable THEN {} ELSE
       Text({"gokr.config"}, {}, "gokr_config") \cup Text({"gokr.listen"}, {}, "gokr_listen")
  \cup Text({"gokr.monitoring_listen"}, {}, "gokr_monitoring_listen")
  \cup Text({"gokr.anonssh_listen"}, {}, "gokr_anonssh_listen")
  \cup Text({"gokr.modulemap"}, {}, "gokr_modulemap")

(* Variant: the daemon's options are added to the others.                  *)
TablesAdded ==
  [main   |-> GokrazyOptions \cup SharedOptions \cup ClientOptions,
   daemon |-> SharedOptions \cup DaemonOptions \cup
              {r \in ClientOptions : \A q \in DaemonOptions : (q.long \cap r.long) \cup (q.short \cap r.short) = {}}]

Tables ==
  [main   |-> GokrazyOptions \cup SharedOptions \cup ClientOptions,
   daemon |-> GokrazyOptions \cup SharedOptions \cup DaemonOptions]

(* So it does not matter that the first match counts.                      *)
ASSUME NamesAreUnique ==
  \A t \in {"main", "daemon"} : \A r, s \in Tables[t] :
    (r.long \cap s.long) \cup (r.short \cap s.short) # {} => r = s

-----------------------------------------------------------------------------
AllRows == Tables.main \cup Tables.daemon

TextFields == {r.field : r \in {q \in AllRows : q.kind = "text" /\ q.field # "nil"}}

(* Those only ParseArguments sets come last.                               *)
IntFields ==
  ({r.field : r \in AllRows} \ (TextFields \cup {"nil", "zero"}))
    \cup {"quiet", "do_compression", "am_sender", "am_daemon"}

Fields == TextFields \cup IntFields

NewOptions ==
  [f \in Fields |->
     CASE f \in {"output_motd", "human_readable", "allow_inc_recurse", "implied_dirs"} -> 1
       [] f \in {"xfer_dirs", "relative_paths", "whole_file", "blocking_io"} -> -1
       [] f \in {"max_delete", "do_compression_level"} -> MinInt32
       [] f = "msgs2stderr" -> 2 [] f = "default_af_hint" -> 6 [] f = "protocol_version" -> 27
       [] f = "rsync_path" -> <<"rsync">>
       [] f \in TextFields \ {"rsync_path"} -> <<>>
       [] OTHER -> 0]

InfoWords == {"backup", "copy", "del", "flist", "misc", "mount", "name", "nonreg", "progress",
              "remove", "skip", "stats", "symsafe"}

(* parseOutputWords; the last word about a level counts, "none" sets one   *)
(* that is then not used, and what is no word is skipped.                  *)
Leveled(levels, text) ==
  [w \in InfoWords |->
     LET about == {i \in 1 .. Len(text) : text[i] \in DOMAIN Levels /\ Levels[text[i]].name \in {w, "all"}}
     IN  IF about = {} THEN levels[w] ELSE Levels[text[Max(about)]].level]

(* setOutputVerbosity: what it sets wins over --info, whose priority is    *)
(* not looked at.                                                          *)
SetOutputVerbosity(verbose, levels) ==
  [w \in InfoWords |->
     IF verbose >= 2 /\ w \in {"misc", "name"} THEN 2
     ELSE IF \/ w = "nonreg"
             \/ verbose >= 1 /\ w \in {"copy", "del", "flist", "misc", "name", "stats", "symsafe"}
             \/ verbose >= 2 /\ w \in {"backup", "mount", "remove", "skip"} THEN 1
     ELSE levels[w]]

-----------------------------------------------------------------------------
(* poptGetNextOpt.  A word with a dash is an option, unless it is a single *)
(* dash.  Before and After are the sides of the first "=".                 *)

IsOption(w) == w.dashes > 1 \/ (w.dashes = 1 /\ w.chars # <<>>)

EqualsSign(w) == SelectInSeq(w.chars, LAMBDA t : t = "=")
Before(w) == IF EqualsSign(w) = 0 THEN w.chars ELSE SubSeq(w.chars, 1, EqualsSign(w) - 1)
After(w)  == IF EqualsSign(w) = 0 THEN <<>> ELSE SubSeq(w.chars, EqualsSign(w) + 1, Len(w.chars))

(* The table in use may not know a long name, which is then a cluster: the *)
(* last three begin with a letter that the daemon's table has, every other *)
(* fails at the first.  The first four look like clusters, but are none.   *)
Letters ==
  [zl |-> <<"z", "l">>, zc |-> <<"z", "c">>, cc |-> <<"c", "c">>, del |-> <<"d", "e", "l">>]
    @@ ("version" :> <<"v", "e", "r", "s", "i", "o", "n">>)
    @@ ("hard-links" :> <<"h", "a", "r", "d", "-", "l", "i", "n", "k", "s">>)
    @@ ("human-readable" :>
          <<"h", "u", "m", "a", "n", "-", "r", "e", "a", "d", "a", "b", "l", "e">>)

Name(chars) ==
  IF \E n \in DOMAIN Letters : Letters[n] = chars THEN CHOOSE n \in DOMAIN Letters : Letters[n] = chars
  ELSE IF Len(chars) = 1 THEN chars[1] ELSE ""

LongNames  == [t \in DOMAIN Tables |-> [n \in UNION {r.long : r \in Tables[t]} |->
                 CHOOSE r \in Tables[t] : n \in r.long]]
ShortNames == [t \in DOMAIN Tables |-> [n \in UNION {r.short : r \in Tables[t]} |->
                 CHOOSE r \in Tables[t] : n \in r.short]]

LongOption(t, w) ==
  IF w.dashes \in 1 .. 2 /\ Name(Before(w)) \in DOMAIN LongNames[t] THEN {LongNames[t][Name(Before(w))]} ELSE {}

ShortOption(t, letter) ==
  IF letter \in DOMAIN ShortNames[t] THEN {ShortNames[t][letter]} ELSE {}

Takes(r) == r.kind \in {"int", "text"}

(* findOption: the option that comes next, if there is one, the text       *)
(* behind its "=", and what is left.  What is no long option is read as a  *)
(* cluster; the second of two dashes is then an unknown letter.            *)
Found ==
  LET InCluster(chars, rest) ==
        {[row |-> r, text |-> <<>>, cluster |-> Tail(chars), args |-> rest] :
           r \in ShortOption(table, Head(chars))}
      w == Head(args)
  IN  IF cluster # <<>> THEN InCluster(cluster, args)
      ELSE IF LongOption(table, w) # {}
      THEN {[row |-> r, text |-> After(w), cluster |-> <<>>, args |-> Tail(args)] :
              r \in LongOption(table, w)}
      ELSE IF w.dashes = 1 THEN InCluster(w.chars, Tail(args)) ELSE {}

(* Variant: the sign stays.                                                *)
TrimKeeps(chars) == chars

(* The rest of a cluster as a text, the sign in front of it taken off.     *)
Trim(chars) == IF Head(chars) = "=" THEN Tail(chars) ELSE chars

(* Variant: the next word goes even if the option has a text.              *)
ArgumentAndWord(f) ==
  [text |-> IF f.text # <<>> THEN f.text ELSE IF f.cluster # <<>> THEN Trim(f.cluster) ELSE TextOf(Head(f.args)),
   args |-> IF f.args = <<>> THEN <<>> ELSE Tail(f.args)]

(* The text of an option that takes one: behind the sign, or the rest of   *)
(* the cluster, or else the next word, whatever it is.  An empty text      *)
(* behind the sign of a long option does not count.                        *)
Argument(f) ==
  IF f.text # <<>> THEN [text |-> f.text, args |-> f.args]
  ELSE IF f.cluster # <<>> THEN [text |-> Trim(f.cluster), args |-> f.args]
  ELSE [text |-> TextOf(Head(f.args)), args |-> Tail(f.args)]

(* Variant: no limit to what fits an option.                               *)
FitsAlways(n) == TRUE

Fits(n) == n \in MinInt32 .. MaxInt32

(* Why the option found cannot be taken.  poptSaveInt expects a pointer.   *)
Fault(f) ==
  IF Takes(f.row) /\ f.text = <<>> /\ f.cluster = <<>> /\ f.args = <<>> THEN "NOARG"
  ELSE IF f.row.kind = "int" /\ Argument(f).text \notin DOMAIN Numbers THEN "BADNUMBER"
  ELSE IF f.row.kind = "int" /\ ~Fits(Numbers[Argument(f).text]) THEN "OVERFLOW"
  ELSE IF ~Takes(f.row) /\ (f.text # <<>> \/ (f.cluster # <<>> /\ Head(f.cluster) = "=")) THEN "UNWANTEDARG"
  ELSE IF f.row.field = "zero" THEN "panic"
  ELSE IF f.row.code = "refused" \/ (f.row.code = "sender" /\ o.am_server = 0) THEN "refused"
  ELSE "none"

(* poptSaveInt and poptSaveArg.  Two bits are all that is or-ed.           *)
Saved(row, text) ==
  IF row.field = "nil" THEN o
  ELSE [o EXCEPT ![row.field] =
          CASE row.kind = "none" -> row.val
            [] row.kind = "or"   -> IF @ \in {row.val, 3} THEN @ ELSE @ + row.val
            [] row.kind = "int"  -> Numbers[text]
            [] row.kind = "text" -> text]

-----------------------------------------------------------------------------
(* ParseArguments.                                                         *)

Archive == {"preserve_links", "preserve_perms", "preserve_mtimes", "preserve_gid", "preserve_uid",
            "preserve_devices", "preserve_specials"}

(* Variant: special files are no devices.                                  *)
DevicesOnly == {"preserve_devices"}

Devices == {"preserve_devices", "preserve_specials"}

Counted == [h |-> "human_readable", i |-> "itemize_changes", v |-> "verbose", q |-> "quiet",
            x |-> "one_file_system", z |-> "do_compression", X |-> "preserve_xattrs", U |-> "preserve_atimes"]

Counters == {Counted[code] : code \in DOMAIN Counted}

AllSet(p, fields, val) == [f \in Fields |-> IF f \in fields THEN val ELSE p[f]]

(* The cases of the switch that change options.                            *)
Handled(code, p) ==
  CASE code = "a"      -> AllSet(p, Archive \cup (IF p.recurse = 0 THEN {"recurse"} ELSE {}), 1)
    [] code = "D"      -> AllSet(p, Devices, 1)
    [] code = "no-D"   -> AllSet(p, Devices, 0)
    [] code = "P"      -> AllSet(p, {"do_progress", "keep_partial"}, 1)
    [] code = "H"      -> [p EXCEPT !.preserve_hard_links = 1]
    [] code = "U"      -> [p EXCEPT !.preserve_atimes = @ + 1,
                                    !.open_noatime = IF p.preserve_atimes > 0 THEN 1 ELSE @]
    [] code = "server" -> [p EXCEPT !.am_server = 1]
    [] code = "sender" -> [p EXCEPT !.am_sender = 1]
    [] code = "old-compress" -> [p EXCEPT !.compress_choice = <<"zlib">>]
    [] code = "new-compress" -> [p EXCEPT !.compress_choice = <<"zlibx">>]
    [] code = "no-compress"  -> [p EXCEPT !.compress_choice = <<>>, !.do_compression = 0]
    [] code \in DOMAIN Counted \ {"U"} -> [p EXCEPT ![Counted[code]] = @ + 1]
    [] OTHER           -> p

(* The defaults that depend on other options.                              *)
NameLevel(p, levels) == IF p.do_progress # 0 /\ levels.name = 0 THEN 1 ELSE levels.name

Defaults(p, levels) ==
  LET relative == IF p.relative_paths >= 0 THEN p.relative_paths
                  ELSE IF p.files_from # <<>> THEN 1 ELSE 0
  IN [p EXCEPT
       !.xfer_dirs      = IF p.recurse # 0 \/ (@ < 0 /\ p.list_only # 0) THEN 1 ELSE IF @ < 0 THEN 0 ELSE @,
       !.relative_paths = relative,
       !.implied_dirs   = IF relative = 0 THEN 0 ELSE @,
       !.missing_args   = IF @ = 3 THEN 2 ELSE @,
       !.backup_suffix  = IF @ = <<>> /\ p.backup_dir = <<>> THEN <<"~">> ELSE @,
       !.make_backups   = IF p.backup_dir # <<>> THEN 1 ELSE @,
       !.stdout_format  = IF NameLevel(p, levels) >= 1 /\ @ = <<>> THEN <<"%n%L">> ELSE @]

-----------------------------------------------------------------------------
Ends(e) == status' = e /\ UNCHANGED <<line, table, args, cluster, o, info, remaining>>

Operand ==
  /\ cluster = <<>> /\ args # <<>> /\ ~IsOption(Head(args))
  /\ IF TextOf(Head(args)) = <<>> THEN Ends("BADOPT")
     ELSE /\ remaining' = Append(remaining, Head(args)) /\ args' = Tail(args)
          /\ UNCHANGED <<line, table, cluster, o, info, status>>

OptionNext == cluster # <<>> \/ (args # <<>> /\ IsOption(Head(args)))

Unknown == OptionNext /\ Found = {} /\ Ends("BADOPT")

Refuse == OptionNext /\ \E f \in Found : Fault(f) # "none" /\ Ends(Fault(f))

(* --daemon and its like: the whole line again, with the other table and   *)
(* the same options.                                                       *)
Restart ==
  /\ OptionNext /\ \E f \in Found : Fault(f) = "none" /\ f.row.code = "daemon"
  /\ table' = "daemon" /\ args' = line /\ cluster' = <<>> /\ remaining' = <<>>
  /\ UNCHANGED <<line, o, info, status>>

TakeFlag ==
  /\ OptionNext
  /\ \E f \in Found :
       /\ Fault(f) = "none" /\ f.row.code # "daemon" /\ ~Takes(f.row)
       /\ o' = Handled(f.row.code, Saved(f.row, <<>>))
       /\ args' = f.args /\ cluster' = f.cluster
  /\ UNCHANGED <<line, table, info, remaining, status>>

TakeText ==
  /\ OptionNext
  /\ \E f \in Found :
       /\ Fault(f) = "none" /\ f.row.code # "daemon" /\ Takes(f.row)
       /\ o' = Saved(f.row, Argument(f).text)
       /\ info' = IF f.row.code = "info" THEN Leveled(info, Argument(f).text) ELSE info
       /\ args' = Argument(f).args /\ cluster' = <<>>
  /\ UNCHANGED <<line, table, remaining, status>>

Finish ==
  /\ cluster = <<>> /\ args = <<>>
  /\ \/ /\ table = "main"
        /\ LET levels == SetOutputVerbosity(o.verbose, info)
           IN info' = [levels EXCEPT !.name = NameLevel(o, levels)] /\ o' = Defaults(o, levels)
     \/ table = "daemon" /\ o' = [o EXCEPT !.am_daemon = 1] /\ UNCHANGED info
  /\ status' = "ok"
  /\ UNCHANGED <<line, table, args, cluster, remaining>>

Init ==
  /\ line \in Lines /\ table = "main" /\ args = line /\ cluster = <<>>
  /\ o = NewOptions /\ info = [w \in InfoWords |-> 0]
  /\ remaining = <<>> /\ status = "parsing"

Next ==
  /\ status = "parsing"
  /\ Operand \/ Unknown \/ Refuse \/ Restart \/ TakeFlag \/ TakeText \/ Finish

Spec == Init /\ [][Next]_vars

-----------------------------------------------------------------------------
Flags == {"dry_run", "delete_mode", "recurse", "always_checksum", "ignore_times", "size_only",
          "preserve_gid", "preserve_uid", "preserve_links", "preserve_perms", "preserve_mtimes",
          "preserve_devices", "preserve_specials", "preserve_hard_links"}

(* The accessors DryRun, DeleteMode and so on.                             *)
On(flag, val) == IF flag \in {"ignore_times", "size_only"} THEN val = 1 ELSE val # 0

(* The tokens of the line, and those of the texts the program itself has.  *)
Tokens == {"-", "rsync", "zlib", "zlibx", "~", "%n%L"} \cup UNION {ToSet(w.chars) : w \in ToSet(line)}

(* Types: no text is made up, what is no count of letters fits 32 bits,    *)
(* and after the defaults nothing is undecided that the transfer asks for. *)
TypeOK ==
  /\ table \in {"main", "daemon"} /\ status \in {"parsing", "ok", "panic"} \cup Errors
  /\ cluster \in Seq(Tokens) /\ \A w \in ToSet(args) \cup ToSet(remaining) : w \in ToSet(line)
  /\ \A f \in IntFields : o[f] \in IF f \in Counters THEN Nat ELSE MinInt32 .. MaxInt32
  /\ \A f \in TextFields : o[f] \in Seq(Tokens)
  /\ \A w \in InfoWords : info[w] \in Nat
  /\ status = "ok" /\ table = "main" =>
       o.xfer_dirs >= 0 /\ {o.relative_paths, o.implied_dirs} \subseteq {0, 1} /\ o.missing_args \in 0 .. 2

(* Whether the last option in w takes a text and has none of its own.      *)
Asks(t, w) ==
  /\ IsOption(w)
  /\ IF LongOption(t, w) # {} THEN After(w) = <<>> /\ \E r \in LongOption(t, w) : Takes(r)
     ELSE \A k \in 1 .. Len(w.chars) :
            (\E r \in ShortOption(t, w.chars[k]) : Takes(r)) <=> k = Len(w.chars)

(* The words that were taken as the text of the one before, which was not  *)
(* taken itself: every other one of several that ask.                      *)
Swallowed(t) ==
  {i \in 1 .. Len(line) : Cardinality({j \in 1 .. i - 1 : \A m \in j .. i - 1 : Asks(t, line[m])}) % 2 = 1}

Operands == {i \in 1 .. Len(line) : i \notin Swallowed(table) /\ ~IsOption(line[i])}

(* The words at the places in P, in their order.                           *)
Lists(words, P) ==
  \E p \in [1 .. Len(words) -> P] :
    /\ \A i, j \in 1 .. Len(words) : i < j => p[i] < p[j]
    /\ \A i \in P : \E j \in 1 .. Len(words) : p[j] = i
    /\ \A i \in 1 .. Len(words) : words[i] = line[p[i]]

(* No file name is lost, and none is made up: what remains are the words   *)
(* without a dash, in their order, but for those that an option asked for  *)
(* which had no text of its own.  One that ends with an equals sign has    *)
(* none (popt.go:222), so `--rsh= src` loses the name.                     *)
OperandsSurvive == status = "ok" => Lists(remaining, Operands)

(* The options of the line, each with its word and its place in it: a      *)
(* cluster has one at every letter, up to one that takes the rest.         *)
Places(t, w) ==
  IF ~IsOption(w) THEN {} ELSE IF LongOption(t, w) # {} THEN {1}
  ELSE {k \in 1 .. Len(w.chars) : \A j \in 1 .. k - 1 : \A r \in ShortOption(t, w.chars[j]) : ~Takes(r)}

Given(t) == UNION {{i} \X Places(t, line[i]) : i \in (1 .. Len(line)) \ Swallowed(t)}

OptionsAt(t, g) ==
  LET w == line[g[1]]
  IN  IF LongOption(t, w) # {} THEN LongOption(t, w) ELSE ShortOption(t, w.chars[g[2]])

Precedes(g, h) == g[1] < h[1] \/ (g[1] = h[1] /\ g[2] < h[2])

Sets(r, flag) ==
  \/ r.field = flag \/ (r.code = "a" /\ flag \in Archive \cup {"recurse"})
  \/ (r.code \in {"D", "no-D"} /\ flag \in {"preserve_devices", "preserve_specials"})
  \/ r.code = "H" /\ flag = "preserve_hard_links"

SwitchesOn(r) == r.code \in {"a", "D", "H"} \/ (r.code = "" /\ r.val # 0)

(* Each switch that a transfer looks at is as the last option left it that *)
(* is about it, however many options are about it (-a, -D, --no-D), in     *)
(* clusters or alone, and no text of an option is mistaken for one.        *)
LastOptionWins ==
  status = "ok" /\ table = "main" =>
    \A flag \in Flags :
      LET about == {g \in Given(table) : \E r \in OptionsAt(table, g) : Sets(r, flag)}
      IN  On(flag, o[flag]) <=>
            \E g \in about : /\ \A h \in about : ~Precedes(g, h)
                            /\ \E r \in OptionsAt(table, g) : SwitchesOn(r)

(* A daemon begins anew: what the first reading of the line has set, up to *)
(* the option that asks for a daemon, leaves no trace that its own options *)
(* would not leave.  And only there may the parser panic (popt.go:107).    *)
DaemonStartsOver ==
  /\ status = "panic" => table = "daemon" /\ \E g \in Given(table) : \E r \in OptionsAt(table, g) :
                           {"verbose", "v", "h"} \cap (r.long \cup r.short) # {}
  /\ status = "ok" /\ table = "daemon" =>
       \A f \in Fields : o[f] # NewOptions[f] =>
          f = "am_daemon" \/ \E r \in GokrazyOptions \cup SharedOptions \cup DaemonOptions : r.field = f
=============================================================================
