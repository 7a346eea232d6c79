---------------------------- MODULE MCHashSearch ----------------------------
(* Small instances of HashSearch for TLC.                                  *)
EXTENDS HashSearch

MCByte == {-1, 0, 1}

Strings(S, least, most) == UNION {[1 .. n -> S] : n \in least .. most}

(* Files of up to five bytes over two byte values, some of zero bytes up to*)
(* the size of a window, one of eleven bytes with several matches and one  *)
(* of sixteen bytes with hardly any.                                       *)
MCFiles  ==
  Strings({-1, 1}, 0, 5) \cup Strings({0}, 1, 6)
    \cup {<<1, 1, -1, 1, 1, 1, -1, -1, 1, 1, 1>>,
          <<0, 0, 0, 0, 0, 0, 0, 0, 0, 0, 0, 0, 0, 0, -1, 1>>}

(* Copies of up to five bytes, one of zero bytes.                          *)
MCCopies == {<<0, 0, 0, 0, 0>>, <<1>>, <<-1, 1>>, <<1, 1, -1>>, <<-1, 1, 1>>, <<1, -1, -1, 1>>, <<-1, 1, 1, -1>>}

(* Files that are longer than the default window of four bytes.            *)
LongFiles == Strings({1}, 9, 11)
OneCopy   == {<<-1>>}

(* The head of each file that is short enough for ReadFrom is taken and    *)
(* means the same blocks to all three sides.                               *)
Heads == {<<n, r>> \in (0 .. MaxBlockLen * MaxBlockLen - 1) \X (0 .. MaxBlockLen) : IsRoot(r, n)}

ASSUME HeadsAreSound ==
  \A q \in Heads :
    LET h == SumSizesSqroot(q[1], q[2])
    IN  ReadFrom(h) /\ Covers(h, q[1]) /\ SidesAgree(h, q[1])
=============================================================================
