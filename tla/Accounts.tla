------------------------------ MODULE Accounts ------------------------------
(***************************************************************************)
(* The users and groups a rule may name, as the daemon reads them from     *)
(* /etc/login.defs, /etc/shells, /etc/passwd and /etc/group each time it   *)
(* needs them.                                                             *)
(*                                                                         *)
(* The contents of the files: defs is the sequence of the lines that hold  *)
(* a key and a value, shells the set of lines of /etc/shells, passwd and   *)
(* group the sets of lines with a name and enough fields.  A file that is  *)
(* not there or cannot be opened has no lines.                             *)
(***************************************************************************)
EXTENDS Integers, Sequences, FiniteSetsExt

CONSTANTS
    Users,        \* the names of users other than root
    Groups,
    Shells,
    Root,         \* "root", which is always accepted
    NoUser,       \* "--", which the page shows for it
    NotANumber,   \* a text that StrToUint refuses
    IdRange,      \* uid_t and gid_t hold the numbers below this one: 2^32
    AccountFiles, \* names for the states the files may be in
    Text          \* the contents of the files in each

LimitKeys == {"UID_MIN", "UID_MAX", "GID_MIN", "GID_MAX"}
Numbers   == Nat \cup {NotANumber}

Contents ==
    [defs   : Seq([key : LimitKeys \cup {"OTHER"}, value : Numbers]),
     shells : SUBSET Shells,
     passwd : SUBSET [name : Users \cup {Root}, uid : Numbers, gid : Numbers,
                      shell : Shells],
     group  : SUBSET [name : Groups, gid : Numbers]]

ASSUME AccountAssumption ==
    /\ Text \in [AccountFiles -> Contents]
    /\ Root \notin Users /\ NoUser \notin Users \cup {Root}
    /\ NotANumber \notin Nat /\ IdRange \in Nat \ {0}
    /\ \A f \in AccountFiles :
          \A line \in Text[f].passwd : line.name = Root => line.uid = 0
----------------------------------------------------------------------------
(* GetSystemUidMinMax *)

\* The value that the first n lines give a key; 0 is none.
Limit(defs, n, key) ==
    LET lines == {i \in 1..n : defs[i].key = key}
    IN  IF lines = {} THEN 0 ELSE defs[Max(lines)].value % IdRange

Readable(defs, n) ==
    \A i \in 1..n : defs[i].key \in LimitKeys => defs[i].value # NotANumber

\* The loop ends at the first line that completes the limits; a number that
\* cannot be read before that line leaves none.
Completed(defs) ==
    {n \in DOMAIN defs :
        Readable(defs, n) /\ \A key \in LimitKeys : Limit(defs, n, key) > 0}

IdLimits(defs) == [key \in LimitKeys |-> Limit(defs, Min(Completed(defs)), key)]
----------------------------------------------------------------------------
(* GetHumanUsers and GetHumanGroups *)

InLimits(number, low, high) ==
    number # NotANumber /\ number % IdRange \in low..high

HumanUsers(files) ==
    LET limits == IdLimits(Text[files].defs)
    IN  {line.name : line \in
            {u \in Text[files].passwd :
                /\ u.shell \in Text[files].shells
                /\ InLimits(u.uid, limits["UID_MIN"], limits["UID_MAX"])
                /\ InLimits(u.gid, limits["GID_MIN"], limits["GID_MAX"])}}

\* The number of a group is compared with the limits for users.
HumanGroups(files) ==
    LET limits == IdLimits(Text[files].defs)
    IN  {line.name : line \in
            {g \in Text[files].group :
                InLimits(g.gid, limits["UID_MIN"], limits["UID_MAX"])}}
----------------------------------------------------------------------------
(* What the handlers make of the lists. *)

Nobody == [users |-> {}, groups |-> {}]

\* GetSystemUsersAndGroups: what the page lets the administrator choose from.
Offered ==
    [files \in AccountFiles |->
        IF Completed(Text[files].defs) = {} THEN Nobody
        ELSE LET users == HumanUsers(files)
             IN  [users  |-> IF users = {} THEN {} ELSE users \cup {NoUser},
                  groups |-> HumanGroups(files)]]

\* Mutant of Accepted: root is not among the users.
AcceptedHumans ==
    [files \in AccountFiles |->
        IF Completed(Text[files].defs) = {} THEN Nobody
        ELSE [users |-> HumanUsers(files), groups |-> HumanGroups(files)]]

\* CreateRules and UpdateRules: whom a rule may name.
Accepted ==
    [files \in AccountFiles |->
        IF Completed(Text[files].defs) = {} THEN Nobody
        ELSE [users  |-> HumanUsers(files) \cup {Root},
              groups |-> HumanGroups(files)]]

\* The page shows root as "--"; the daemon takes "--" for root.
AsShown(user) == IF user = Root THEN NoUser ELSE user
Stored(user)  == IF user = NoUser THEN Root ELSE user
=============================================================================
