---------------------------- MODULE MCSaveRules ----------------------------
(* Good devices are interchangeable, and so are groups: the files say the    *)
(* same of each.                                                             *)
EXTENDS SaveRules, TLC

CONSTANTS u1, bash, Plain, Deserted, Ungrouped, Broken

Symmetry == Permutations(Devs \ BadDevs) \cup Permutations(Groups)

Pair(k, v) == [key |-> k, value |-> v]

\* Root and one user, at the ends of the limits; the last line is not read.
PlainText ==
    [defs   |-> <<Pair("OTHER", NotANumber), Pair("UID_MIN", 2),
                  Pair("GID_MIN", 3), Pair("UID_MAX", 4), Pair("UID_MAX", 5),
                  Pair("GID_MAX", 6), Pair("GID_MAX", NotANumber)>>,
     shells |-> {bash},
     passwd |-> {[name |-> Root, uid |-> 0, gid |-> 0, shell |-> bash],
                 [name |-> u1, uid |-> 5, gid |-> 6, shell |-> bash]},
     group  |-> [name : Groups, gid : {2}]]

\* Nobody but root; or no group; or a number that cannot be read.
MCText ==
    (Plain :> PlainText)
      @@ (Deserted :> [PlainText EXCEPT !.shells = {}])
      @@ (Ungrouped :> [PlainText EXCEPT !.group = [name : Groups, gid : {6}]])
      @@ (Broken :> [PlainText EXCEPT !.defs = <<Pair("UID_MIN", NotANumber)>> \o @])
=============================================================================
