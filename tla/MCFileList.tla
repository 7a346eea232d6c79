----------------------------- MODULE MCFileList -----------------------------
(* Instances of FileList.                                                  *)
EXTENDS FileList

a == 5
b == 6

Make(name, mode, time, id, dev) ==
  [name |-> name, length |-> Len(name), time |-> time, mode |-> mode, uid |-> id,
   gid |-> id, rdev |-> dev, link |-> IF mode = "link" THEN <<a>> ELSE <<>>, sum |-> 0]

Root  == Make(<<Slash>>, "dir", 1, 1, 0)
File  == Make(<<b>>, "reg", 1, 1, 0)
Under == Make(<<b, Slash, a>>, "reg", 3, 1, 0)
Crook == Make(<<a, Slash, Dot, Slash, b>>, "reg", 2, 1, 0)
Link  == Make(<<a, b>>, "link", 2, 2, 0)
Pipe  == Make(<<b, a>>, "fifo", 1, 2, 3)
Disk  == Make(<<b, b>>, "blk", 1, 2, 3)
Tall  == Make(<<b, a, b, a, b, a>>, "reg", 1, 2, 0)

MCListings ==
  {<<<<Root, Under, File>>>>, <<<<Link, Crook>>, <<File>>>>, <<<<Pipe, Disk>>>>, <<<<Tall>>>>}

(* A root, as a client sends it.                                           *)
Top == [Root EXCEPT !.name = <<Dot>>]

MCUploads == {<<Top, [Under EXCEPT !.time = 2], File>>, <<File, Pipe, Disk>>, <<Link, Link>>, <<File, Tall>>,
              <<Crook, [Crook EXCEPT !.name = <<a, Slash, Dot, Slash, a>>]>>}

Line(prefix, text) == [prefix |-> prefix, text |-> text]

MCFilterLines ==
  {<<>>, <<Line("- ", <<b, Slash>>), Line("", <<b, Slash, a>>)>>,
   <<Line("- ", <<a>>), Line("- ", <<Star>>)>>, <<Line("", <<Bang>>)>>}

MCIncludes == {<<Line("+ ", <<b>>), Line("- ", <<b>>)>>, <<Line("+ ", <<a>>)>>}

Opt(ids, devices, specials, links, checksum) ==
  [uid |-> ids, gid |-> ids, devices |-> devices, specials |-> specials, links |-> links,
   checksum |-> checksum]

MCOptions ==
  {Opt(FALSE, FALSE, FALSE, FALSE, FALSE), Opt(TRUE, TRUE, TRUE, TRUE, FALSE),
   Opt(FALSE, TRUE, FALSE, TRUE, FALSE), Opt(FALSE, FALSE, TRUE, TRUE, TRUE),
   [Opt(FALSE, FALSE, FALSE, FALSE, FALSE) EXCEPT !.gid = TRUE]}

MCIdLists == {<<>>, <<1, 2>>}
=============================================================================
