--------------------------- MODULE MCRadioService ---------------------------
(***************************************************************************)
(* Small instances of RadioService: one or two configured radios and an id *)
(* nobody configured; the default list of an adapter is shorter than the   *)
(* list its radio advertises.  Powers are 28.6 dBm, 2 dBm, one above the   *)
(* radio's range and one above the gateway's.                              *)
(***************************************************************************)
EXTENDS RadioService

MCDefaultList == <<15>>
MCProfileList == <<10, 20>>

Post(kind, id, x, y) ==
    [kind |-> kind, id |-> id, x |-> x, y |-> y, auth |-> "granted"]

OneRadio == {"r1"}
TwoRadios == {"r1", "r2"}

GoodPosts ==
    { Post("power", "r1", 286, 0), Post("power", "r1", 20, 0),
      Post("channel", "r1", 1, 0), Post("channel", "r1", Absent, 20) }

BadPosts ==
    { Post("select", "r1", 0, 0), Post("select", "ghost", 0, 0),
      Post("power", "ghost", 286, 0), Post("channel", "ghost", 1, 0),
      Post("power", "r1", 300, 0), Post("power", "r1", 400, 0),
      Post("channel", "r1", 9, 0), Post("channel", "r1", 1, 20),
      Post("channel", "r1", Absent, 0), Post("malformed", "r1", 0, 0),
      [Post("power", "r1", 286, 0) EXCEPT !.auth = "FORBIDDEN"] }

AllPosts == GoodPosts \cup BadPosts
\* Fewer of each kind, and a second radio that is given commands too.
PostsForTwo ==
    { Post("power", "r1", 286, 0), Post("channel", "r1", Absent, 20),
      Post("power", "r2", 20, 0) }
        \cup (BadPosts \ {Post("select", "r1", 0, 0)})
Selects == {Post("select", "r1", 0, 0), Post("select", "ghost", 0, 0)}
=============================================================================
