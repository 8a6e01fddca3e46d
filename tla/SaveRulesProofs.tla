-------------------------- MODULE SaveRulesProofs --------------------------
(***************************************************************************)
(* Proofs about SaveRules for any pages, devices, users, groups, contents  *)
(* of the account files and bounds: the types, that the file takes whole   *)
(* forms only, that what was shown is what is saved, and which forms make  *)
(* SaveRules throw.                                                        *)
(***************************************************************************)
EXTENDS SaveRules, RowsProofs

(* Whom the daemon offers and whom it accepts.                             *)

\* A limit that the lines up to n give is a number of its type.
LEMMA LimitIsNumber ==
  ASSUME NEW files \in AccountFiles, NEW n \in DOMAIN Text[files].defs,
         Readable(Text[files].defs, n), NEW key \in LimitKeys
  PROVE  Limit(Text[files].defs, n, key) \in Nat
<1> DEFINE defs  == Text[files].defs
           lines == {i \in 1..n : defs[i].key = key}
<1>1. defs \in Seq([key : LimitKeys \cup {"OTHER"}, value : Numbers])
  BY AccountAssumption DEF Contents
<1>2. n \in Nat /\ n <= Len(defs)
  BY <1>1
<1>3. CASE lines = {}
  BY <1>3 DEF Limit
<1>4. CASE lines # {}
  <2>1. lines \subseteq 0..n
    BY <1>2
  <2> HIDE DEF lines
  <2>2. Max(lines) \in lines
    BY <1>2, <1>4, <2>1, MaxOfBounded
  <2> USE DEF lines
  <2>3. Max(lines) \in 1..n /\ defs[Max(lines)].key = key
    BY <2>2
  <2>4. Max(lines) \in DOMAIN defs
    BY <1>1, <1>2, <2>3
  <2>5. defs[Max(lines)].value \in Numbers
    <3>1. defs[Max(lines)] \in [key : LimitKeys \cup {"OTHER"}, value : Numbers]
      <4> DEFINE Entry == [key : LimitKeys \cup {"OTHER"}, value : Numbers]
      <4>1. defs \in Seq(Entry)
        BY <1>1
      <4> HIDE DEF defs, lines, Entry
      <4>2. defs[Max(lines)] \in Entry
        BY <2>4, <4>1
      <4> QED
        BY <4>2 DEF Entry
    <3> QED
      BY <3>1
  <2>6. defs[Max(lines)].value # NotANumber
    BY <2>3 DEF Readable
  <2>7. defs[Max(lines)].value % IdRange \in Nat
    BY <2>5, <2>6, AccountAssumption DEF Numbers
  <2>8. Limit(defs, n, key) = defs[Max(lines)].value % IdRange
    BY <1>4 DEF Limit
  <2> QED
    BY <2>7, <2>8
<1> QED
  BY <1>3, <1>4

\* No limit is zero.
LEMMA LimitsArePositive ==
  ASSUME NEW files \in AccountFiles, Completed(Text[files].defs) # {},
         NEW key \in LimitKeys
  PROVE  /\ IdLimits(Text[files].defs)[key] \in Nat
         /\ IdLimits(Text[files].defs)[key] > 0
<1> DEFINE defs == Text[files].defs
           n    == Min(Completed(defs))
<1>1. defs \in Seq([key : LimitKeys \cup {"OTHER"}, value : Numbers])
  BY AccountAssumption DEF Contents
<1>2. Completed(defs) \subseteq Nat
  BY <1>1 DEF Completed
<1>3. n \in Completed(defs)
  BY <1>2, MinOfIds
<1>4. /\ n \in DOMAIN defs /\ Readable(defs, n)
      /\ Limit(defs, n, key) > 0
  BY <1>3 DEF Completed
<1>5. Limit(defs, n, key) \in Nat
  BY <1>4, LimitIsNumber
<1>6. IdLimits(defs)[key] = Limit(defs, n, key)
  BY DEF IdLimits
<1> QED
  BY <1>4, <1>5, <1>6

\* root is none of the users that are listed: its number is below the limits.
LEMMA HumansAreUsers ==
  ASSUME NEW files \in AccountFiles, Completed(Text[files].defs) # {}
  PROVE  HumanUsers(files) \subseteq Users /\ HumanGroups(files) \subseteq Groups
<1> DEFINE limits == IdLimits(Text[files].defs)
<1>1. Text[files] \in Contents
  BY AccountAssumption
<1>2. ASSUME NEW line \in Text[files].passwd,
             InLimits(line.uid, limits["UID_MIN"], limits["UID_MAX"])
      PROVE  line.name \in Users
  <2>1. line.name \in Users \cup {Root}
    BY <1>1 DEF Contents
  <2>2. limits["UID_MIN"] \in Nat /\ limits["UID_MIN"] > 0
    BY LimitsArePositive DEF LimitKeys
  <2>3. limits["UID_MAX"] \in Nat
    BY LimitsArePositive DEF LimitKeys
  <2> HIDE DEF limits
  <2>4. line.uid # 0
    <3>1. 0 % IdRange = 0
      BY AccountAssumption
    <3> QED
      BY <1>2, <2>2, <2>3, <3>1 DEF InLimits
  <2> QED
    BY <2>1, <2>4, AccountAssumption
<1>3. HumanUsers(files) \subseteq Users
  <2> HIDE DEF limits
  <2>1. \A name \in HumanUsers(files) :
           \E line \in Text[files].passwd :
              /\ name = line.name
              /\ InLimits(line.uid, limits["UID_MIN"], limits["UID_MAX"])
    BY DEF HumanUsers, limits
  <2> QED
    BY <1>2, <2>1
<1>4. HumanGroups(files) \subseteq Groups
  <2>1. \A line \in Text[files].group : line.name \in Groups
    BY <1>1 DEF Contents
  <2> QED
    BY <2>1 DEF HumanGroups
<1> QED
  BY <1>3, <1>4

LEMMA NamesOffered ==
  ASSUME NEW files \in AccountFiles
  PROVE  /\ Offered[files].users \subseteq Users \cup {NoUser}
         /\ Offered[files].groups \subseteq Groups
         /\ Accepted[files].users \subseteq Users \cup {Root}
         /\ Accepted[files].groups \subseteq Groups
<1>1. CASE Completed(Text[files].defs) = {}
  <2>1. Offered[files] = Nobody /\ Accepted[files] = Nobody
    BY <1>1 DEF Offered, Accepted
  <2> QED
    BY <2>1 DEF Nobody
<1>2. CASE Completed(Text[files].defs) # {}
  <2> DEFINE users == HumanUsers(files)
             groups == HumanGroups(files)
  <2>1. users \subseteq Users /\ groups \subseteq Groups
    BY <1>2, HumansAreUsers
  <2>2. /\ Offered[files] = [users  |-> IF users = {} THEN {}
                                        ELSE users \cup {NoUser},
                             groups |-> groups]
        /\ Accepted[files] = [users |-> users \cup {Root}, groups |-> groups]
    BY <1>2 DEF Offered, Accepted
  <2> HIDE DEF users, groups
  <2>3. /\ Offered[files].users = IF users = {} THEN {} ELSE users \cup {NoUser}
        /\ Offered[files].groups = groups
        /\ Accepted[files].users = users \cup {Root}
        /\ Accepted[files].groups = groups
    BY <2>2
  <2> QED
    BY <2>1, <2>3
<1> QED
  BY <1>1, <1>2

\* GetSystemUsersAndGroups and the two functions that check names agree: of the
\* same files, whoever is offered to the administrator is accepted from him,
\* whatever the files hold.
THEOREM OfferedIsAccepted ==
  ASSUME NEW files \in AccountFiles
  PROVE  /\ \A user \in Offered[files].users : Stored(user) \in Accepted[files].users
         /\ Offered[files].groups \subseteq Accepted[files].groups
<1>1. CASE Completed(Text[files].defs) = {}
  <2>1. Offered[files] = Nobody
    BY <1>1 DEF Offered
  <2> QED
    BY <2>1 DEF Nobody
<1>2. CASE Completed(Text[files].defs) # {}
  <2> DEFINE users == HumanUsers(files)
             groups == HumanGroups(files)
  <2>1. users \subseteq Users
    BY <1>2, HumansAreUsers
  <2>2. /\ Offered[files] = [users  |-> IF users = {} THEN {}
                                        ELSE users \cup {NoUser},
                             groups |-> groups]
        /\ Accepted[files] = [users |-> users \cup {Root}, groups |-> groups]
    BY <1>2 DEF Offered, Accepted
  <2> HIDE DEF users, groups
  <2>3. /\ Offered[files].users = IF users = {} THEN {} ELSE users \cup {NoUser}
        /\ Offered[files].groups = groups
        /\ Accepted[files].users = users \cup {Root}
        /\ Accepted[files].groups = groups
    BY <2>2
  <2>4. \A user \in users : Stored(user) = user
    BY <2>1, AccountAssumption DEF Stored
  <2>5. Stored(NoUser) = Root
    BY DEF Stored
  <2> QED
    BY <2>3, <2>4, <2>5
<1> QED
  BY <1>1, <1>2
-----------------------------------------------------------------------------
(* Lines of the page and rules of the store.                                *)

LEMMA TakenIsRule ==
  ASSUME NEW line \in Line
  PROVE  /\ Taken(line) = [dev |-> line.dev, user |-> Stored(line.user),
                           group |-> line.group]
         /\ Taken(line) \in Rule
         /\ Displayed(Taken(line)) = line
<1>1. Taken(line) = [dev |-> line.dev, user |-> Stored(line.user),
                     group |-> line.group]
  BY DEF Taken, Line
<1>2. Stored(line.user) \in Users \cup {Root} /\ AsShown(Stored(line.user)) = line.user
  BY AccountAssumption DEF Stored, AsShown, Line
<1>3. Taken(line) \in Rule
  BY <1>1, <1>2 DEF Line, Rule
<1>4. Displayed(Taken(line)) = line
  BY <1>1, <1>2 DEF Displayed, Line
<1> QED
  BY <1>1, <1>3, <1>4

LEMMA DisplayedIsLine ==
  ASSUME NEW r \in Rule
  PROVE  Displayed(r) \in Line /\ Taken(Displayed(r)) = r
<1>1. Displayed(r) = [dev |-> r.dev, user |-> AsShown(r.user), group |-> r.group]
  BY DEF Displayed, Rule
<1>2. AsShown(r.user) \in Users \cup {NoUser} /\ Stored(AsShown(r.user)) = r.user
  BY AccountAssumption DEF Stored, AsShown, Rule
<1>3. Displayed(r) \in Line
  BY <1>1, <1>2 DEF Line, Rule
<1>4. Taken(Displayed(r)) = r
  BY <1>1, <1>2 DEF Taken, Rule
<1> QED
  BY <1>3, <1>4

Tabled(Values) == UNION {[S -> Values] : S \in SUBSET Nat}

Messages == [deleted : SUBSET Nat, updated : Tabled(Change), created : SUBSET Line]
Pages    == [files : AccountFiles, lines : Tabled(Line)]
Forms    == UNION {FormsOf(shown) : shown \in Pages}

\* A row whose cells are all filled is a line.
LEMMA CompleteIsLine ==
  ASSUME NEW row \in Row
  PROVE  Complete(row) <=> row \in Line
BY SaveAssumption DEF Complete, Row, Line

LEMMA TabledIsTable ==
  ASSUME NEW Values, NEW d PROVE d \in Tabled(Values) <=> IsTable(d, Values)
BY DEF Tabled, IsTable

LEMMA LinesOfStore ==
  ASSUME NEW d, IsStore(d, Rule)
  PROVE  Lines(d) \in Tabled(Line)
<1>1. \A i \in DOMAIN d : d[i] \in Rule
  BY DEF IsStore, IsTable
<1>2. \A i \in DOMAIN d : Displayed(d[i]) \in Line
  BY <1>1, DisplayedIsLine
<1>3. DOMAIN d \in SUBSET Nat /\ Lines(d) \in [DOMAIN d -> Line]
  BY <1>2 DEF Lines, IsStore, IsTable
<1> QED
  BY <1>3 DEF Tabled

LEMMA FormShape ==
  ASSUME NEW f \in Forms
  PROVE  /\ IsTable(f.page, Line)
         /\ f.want \in [DOMAIN f.page -> Row \cup {Deleted}]
         /\ f.new = {} \/ \E r \in Row : f.new = {r}
         /\ NoDuplicateRows(f)
         /\ f.files \in AccountFiles
<1>1. PICK shown \in Pages : f \in FormsOf(shown)
  BY DEF Forms
<1>2. /\ f.page = shown.lines /\ f.want \in [DOMAIN shown.lines -> Row \cup {Deleted}]
      /\ f.files = shown.files
  BY <1>1 DEF FormsOf
<1>3. shown.lines \in Tabled(Line) /\ shown.files \in AccountFiles
  BY DEF Pages
<1>4. /\ f.new \in {{}} \cup {{r} : r \in [dev : Devs \cup {Blank},
                                           user : Offered[f.files].users,
                                           group : Offered[f.files].groups]}
      /\ NoDuplicateRows(f)
  BY <1>1, <1>2 DEF FormsOf
<1>5. [dev : Devs \cup {Blank}, user : Offered[f.files].users,
       group : Offered[f.files].groups] \subseteq Row
  BY <1>2, <1>3, NamesOffered DEF Row
<1> QED
  BY <1>2, <1>3, <1>4, <1>5, TabledIsTable

\* The cells of a form hold what was there or what was offered.
LEMMA FormChoices ==
  ASSUME NEW f \in Forms
  PROVE  /\ \A i \in Kept(f) :
               /\ f.want[i].user \in Offered[f.files].users \cup {f.page[i].user}
               /\ f.want[i].group \in Offered[f.files].groups \cup {f.page[i].group}
         /\ \A r \in f.new : /\ r.user \in Offered[f.files].users
                             /\ r.group \in Offered[f.files].groups
<1>1. PICK shown \in Pages : f \in FormsOf(shown)
  BY DEF Forms
<1>2. f.files = shown.files
  BY <1>1 DEF FormsOf
<1>3. /\ f.new \in {{}} \cup {{r} : r \in [dev : Devs \cup {Blank},
                                           user : Offered[f.files].users,
                                           group : Offered[f.files].groups]}
      /\ \A i \in Kept(f) :
               /\ f.want[i].user \in Offered[f.files].users \cup {f.page[i].user}
               /\ f.want[i].group \in Offered[f.files].groups \cup {f.page[i].group}
  BY <1>1, <1>2 DEF FormsOf
<1>4. \A r \in f.new : r \in [dev : Devs \cup {Blank},
                              user : Offered[f.files].users,
                              group : Offered[f.files].groups]
  BY <1>3
<1> QED
  BY <1>3, <1>4

LEMMA KeptAreRows ==
  ASSUME NEW f \in Forms
  PROVE  /\ Kept(f) \subseteq DOMAIN f.page /\ DOMAIN f.page \subseteq Nat
         /\ DOMAIN f.want = DOMAIN f.page
         /\ \A i \in Kept(f) : f.want[i] \in Row /\ f.page[i] \in Line
BY FormShape DEF Kept, IsTable

LEMMA AlteredAreLines ==
  ASSUME NEW f \in Forms
  PROVE  /\ Altered(f) \subseteq Kept(f)
         /\ \A i \in Altered(f) : f.want[i] \in Line /\ f.page[i] \in Line
BY KeptAreRows, CompleteIsLine DEF Altered

Changes(f, i) ==
    [dev   |-> Changed(f.page[i].dev, f.want[i].dev),
     user  |-> Changed(f.page[i].user, f.want[i].user),
     group |-> Changed(f.page[i].group, f.want[i].group)]

LEMMA MessageFields ==
  ASSUME NEW f \in Forms
  PROVE  /\ Message(f).deleted = DOMAIN f.page \ Kept(f)
         /\ DOMAIN Message(f).updated = Altered(f)
         /\ \A i \in Altered(f) : Message(f).updated[i] = Changes(f, i)
         /\ Message(f).created = {r \in f.new : Complete(r)}
         /\ Message(f) \in Messages
<1>1. DOMAIN f.want = DOMAIN f.page
  BY KeptAreRows
<1>2. /\ Message(f).deleted = DOMAIN f.page \ Kept(f)
      /\ DOMAIN Message(f).updated = Altered(f)
      /\ \A i \in Altered(f) : Message(f).updated[i] = Changes(f, i)
      /\ Message(f).created = {r \in f.new : Complete(r)}
  BY <1>1 DEF Message, Changes
<1>3. \A i \in Altered(f) : Message(f).updated[i] \in Change
  <2>1. TAKE i \in Altered(f)
  <2>2. f.want[i] \in Line /\ f.page[i] \in Line
    BY AlteredAreLines
  <2>3. /\ Changed(f.page[i].dev, f.want[i].dev) \in Devs \cup {Same}
        /\ Changed(f.page[i].user, f.want[i].user) \in Users \cup {NoUser, Same}
        /\ Changed(f.page[i].group, f.want[i].group) \in Groups \cup {Same}
    BY <2>2 DEF Line, Changed
  <2>4. Message(f).updated[i] = Changes(f, i)
    BY <1>2
  <2> QED
    BY <2>3, <2>4 DEF Change, Changes
<1>4. Message(f).updated \in Tabled(Change)
  <2>1. Message(f).updated = [i \in Altered(f) |-> Message(f).updated[i]]
    BY <1>2 DEF Message
  <2>2. Altered(f) \in SUBSET Nat
    BY KeptAreRows, AlteredAreLines
  <2> QED
    BY <1>3, <2>1, <2>2 DEF Tabled
<1>5. Message(f).created \in SUBSET Line /\ Message(f).deleted \in SUBSET Nat
  BY <1>2, FormShape, KeptAreRows, CompleteIsLine
<1> QED
  BY <1>2, <1>4, <1>5 DEF Message, Messages
-----------------------------------------------------------------------------
(* What deletions and updates make of a table, as far as the ids have been  *)
(* updated.                                                                 *)

Amended(d, m, ids, files) ==
    [i \in DOMAIN d \ m.deleted |->
        IF i \in ids THEN Merged(d[i], m.updated[i], files) ELSE d[i]]

\* The merged fields are those of a rule.
LEMMA MergedIsRule ==
  ASSUME NEW r \in Rule, NEW c \in Change, NEW files \in AccountFiles
  PROVE  Merged(r, c, files) \in Rule
<1>1. /\ r.dev \in Devs /\ r.user \in Users \cup {Root} /\ r.group \in Groups
      /\ c.dev \in Devs \cup {Same}
  BY DEF Rule, Change
<1>2. /\ Accepted[files].users \subseteq Users \cup {Root}
      /\ Accepted[files].groups \subseteq Groups
  BY NamesOffered
<1> QED
  BY <1>1, <1>2 DEF Merged, Rule

LEMMA OutcomeIsAmended ==
  ASSUME NEW d, NEW m, NEW files,
         \A r \in m.created : Known(Amended(d, m, DOMAIN m.updated, files), r.dev)
  PROVE  Outcome(d, m, files) = Amended(d, m, DOMAIN m.updated, files)
BY DEF Outcome, Amended, Without, Restrict

LEMMA OutcomeIsInserted ==
  ASSUME NEW d, NEW m, NEW files, NEW r, m.created = {r},
         ~Known(Amended(d, m, DOMAIN m.updated, files), r.dev)
  PROVE  Outcome(d, m, files) =
         Inserted(Amended(d, m, DOMAIN m.updated, files), Taken(r))
<1> DEFINE a == Amended(d, m, DOMAIN m.updated, files)
           new == {x \in m.created : ~Known(a, x.dev)}
<1>1. Outcome(d, m, files) =
        IF new = {} THEN a ELSE Inserted(a, Taken(CHOOSE x \in new : TRUE))
  <2> DEFINE rest == Without(d, m.deleted)
             merged == [i \in DOMAIN rest |->
                           IF i \in DOMAIN m.updated
                           THEN Merged(rest[i], m.updated[i], files) ELSE rest[i]]
  <2>1. merged = a
    BY DEF Amended, Without, Restrict
  <2> HIDE DEF a
  <2> QED
    BY <2>1 DEF Outcome
<1>2. new = {r}
  OBVIOUS
<1> HIDE DEF a, new
<1>3. (CHOOSE x \in new : TRUE) = r
  BY <1>2
<1> QED
  BY <1>1, <1>2, <1>3 DEF a

\* Deletions and updates make a store of a store.
LEMMA AmendedIsStore ==
  ASSUME NEW d, IsStore(d, Rule), NEW m \in Messages,
         NEW ids \in SUBSET DOMAIN m.updated, NEW files \in AccountFiles
  PROVE  IsStore(Amended(d, m, ids, files), Rule)
<1>1. IsTable(m.updated, Change)
  BY TabledIsTable DEF Messages
<1>2. \A i \in DOMAIN d : d[i] \in Rule
  BY DEF IsStore, IsTable
<1>3. \A i \in ids : m.updated[i] \in Change
  BY <1>1 DEF IsTable
<1>4. \A i \in DOMAIN d \ m.deleted :
         (IF i \in ids THEN Merged(d[i], m.updated[i], files) ELSE d[i]) \in Rule
  BY <1>2, <1>3, MergedIsRule
<1>5. DOMAIN Amended(d, m, ids, files) \subseteq DOMAIN d
  BY DEF Amended
<1>6. Amended(d, m, ids, files)
        \in [DOMAIN Amended(d, m, ids, files) -> Rule]
  BY <1>4 DEF Amended
<1> QED
  BY <1>5, <1>6 DEF IsStore, IsTable
-----------------------------------------------------------------------------
(* A table that holds what a form shows: the rows that were kept under      *)
(* their ids, and the new one under another.  When the daemon did not know  *)
(* a name, or a row was not sent, cells are as they were: the table is half *)
(* made.                                                                    *)

\* A rule has each cell of the row w or of the line p.
Mixed(r, w, p) ==
    /\ r.dev \in {w.dev, p.dev}
    /\ r.user \in {Stored(w.user), Stored(p.user)}
    /\ r.group \in {w.group, p.group}

Appended(d, f) ==
    /\ f.new = {} => DOMAIN d = Kept(f)
    /\ \A r \in f.new :
          \E n : n \notin Kept(f) /\ DOMAIN d = Kept(f) \cup {n} /\ d[n] = Taken(r)

HalfMade(d, f) ==
    /\ \A i \in Kept(f) :
          /\ i \in DOMAIN d /\ Mixed(d[i], f.want[i], f.page[i])
          /\ Complete(f.want[i]) => d[i].dev = f.want[i].dev
    /\ Whole(f) => Appended(d, f)

Made(d, f) ==
    /\ \A i \in Kept(f) : i \in DOMAIN d /\ d[i] = Taken(f.want[i])
    /\ Appended(d, f)

\* All rows of a form without empty cells are lines.
LEMMA WholeRows ==
  ASSUME NEW f \in Forms, Whole(f)
  PROVE  /\ \A i \in Kept(f) : f.want[i] \in Line /\ Complete(f.want[i])
         /\ f.new = {} \/ \E r \in Line : f.new = {r}
         /\ \A r \in f.new : Complete(r)
<1>1. \A row \in Shown(f) : Complete(row)
  BY DEF Whole
<1>2. \A i \in Kept(f) : f.want[i] \in Row /\ Complete(f.want[i])
  BY <1>1, KeptAreRows DEF Shown
<1>3. \A r \in f.new : Complete(r)
  BY <1>1 DEF Shown
<1> QED
  BY <1>2, <1>3, FormShape, CompleteIsLine

LEMMA MadeIsShown ==
  ASSUME NEW f \in Forms, NEW d, Whole(f), Made(d, f)
  PROVE  Range(Lines(d)) = Shown(f) /\ Unique(d)
<1>1. \A i \in Kept(f) : i \in DOMAIN d /\ d[i] = Taken(f.want[i])
  BY DEF Made
<1>2. \A i \in Kept(f) : Displayed(d[i]) = f.want[i] /\ d[i].dev = f.want[i].dev
  <2>1. \A i \in Kept(f) : f.want[i] \in Line
    BY WholeRows
  <2>2. \A line \in Line : Taken(line).dev = line.dev /\ Displayed(Taken(line)) = line
    BY TakenIsRule
  <2> QED
    BY <1>1, <2>1, <2>2
<1>3. /\ DOMAIN Lines(d) = DOMAIN d
      /\ \A i \in DOMAIN d : Lines(d)[i] = Displayed(d[i])
  BY DEF Lines
<1>4. CASE f.new = {}
  <2>1. DOMAIN d = Kept(f)
    BY <1>4 DEF Made, Appended
  <2>2. Range(Lines(d)) = Shown(f)
    BY <1>2, <1>3, <1>4, <2>1 DEF Range, Shown
  <2>3. Unique(d)
    BY <1>2, <2>1, FormShape, WholeRows DEF Unique, NoDuplicateRows
  <2> QED
    BY <2>2, <2>3
<1>5. ASSUME NEW r \in Line, f.new = {r}
      PROVE  Range(Lines(d)) = Shown(f) /\ Unique(d)
  <2>1. PICK n : n \notin Kept(f) /\ DOMAIN d = Kept(f) \cup {n} /\ d[n] = Taken(r)
    BY <1>5 DEF Made, Appended
  <2>2. Displayed(d[n]) = r /\ d[n].dev = r.dev
    BY <2>1, TakenIsRule
  <2>3. Range(Lines(d)) = Shown(f)
    BY <1>2, <1>3, <1>5, <2>1, <2>2 DEF Range, Shown
  <2>4. \A i, j \in Kept(f) : f.want[i].dev = f.want[j].dev => i = j
    BY FormShape, WholeRows DEF NoDuplicateRows
  <2>5. \A i \in Kept(f) : f.want[i].dev # r.dev
    BY <1>5, FormShape, WholeRows DEF NoDuplicateRows
  <2>6. Unique(d)
    BY <1>2, <2>1, <2>2, <2>4, <2>5 DEF Unique
  <2> QED
    BY <2>3, <2>6
<1> QED
  BY <1>4, <1>5, WholeRows

\* The changes of a line, merged into a rule that has its old or its new cells,
\* leave such a rule, with the new device; and the line itself, if the names
\* were chosen from what these files offer.
LEMMA MergedRow ==
  ASSUME NEW f \in Forms, NEW i \in Altered(f), NEW old \in Rule,
         Mixed(old, f.want[i], f.page[i]), NEW files \in AccountFiles
  PROVE  LET r == Merged(old, Changes(f, i), files)
         IN  /\ r.dev = f.want[i].dev /\ Mixed(r, f.want[i], f.page[i])
             /\ files = f.files => r = Taken(f.want[i])
<1> DEFINE w == f.want[i]
           p == f.page[i]
           c == Changes(f, i)
           r == Merged(old, c, files)
<1>1. w \in Line /\ p \in Line /\ i \in Kept(f)
  BY AlteredAreLines
<1>2. /\ w.dev \in Devs /\ p.dev \in Devs
      /\ w.user \in Users \cup {NoUser} /\ p.user \in Users \cup {NoUser}
      /\ w.group \in Groups /\ p.group \in Groups
  <2> HIDE DEF w, p
  <2> QED
    BY <1>1 DEF Line
<1>3. /\ c.dev = Changed(p.dev, w.dev) /\ c.user = Changed(p.user, w.user)
      /\ c.group = Changed(p.group, w.group)
  BY DEF Changes
<1>4. /\ old.dev \in {w.dev, p.dev}
      /\ old.user \in {Stored(w.user), Stored(p.user)}
      /\ old.group \in {w.group, p.group}
  BY DEF Mixed
<1>5. /\ r.dev = IF c.dev = Same THEN old.dev ELSE c.dev
      /\ r.user = IF Stored(c.user) \in Accepted[files].users THEN Stored(c.user)
                  ELSE old.user
      /\ r.group = IF c.group \in Accepted[files].groups THEN c.group ELSE old.group
      /\ r = [dev |-> r.dev, user |-> r.user, group |-> r.group]
  BY DEF Merged
<1>6. /\ Accepted[files].users \subseteq Users \cup {Root}
      /\ Accepted[files].groups \subseteq Groups
  BY NamesOffered
<1>7. files = f.files =>
         /\ w.user = p.user \/ Stored(w.user) \in Accepted[files].users
         /\ w.group = p.group \/ w.group \in Accepted[files].groups
  <2>1. /\ w.user \in Offered[f.files].users \cup {p.user}
        /\ w.group \in Offered[f.files].groups \cup {p.group}
    BY <1>1, FormChoices
  <2>2. /\ \A user \in Offered[files].users : Stored(user) \in Accepted[files].users
        /\ Offered[files].groups \subseteq Accepted[files].groups
    BY OfferedIsAccepted
  <2> QED
    BY <2>1, <2>2
<1>8. Same \notin Devs \cup Users \cup {Root, NoUser} \cup Groups /\ Stored(Same) = Same
  BY SaveAssumption DEF Stored
<1> HIDE DEF w, p, c, r
<1>9. r.dev = w.dev
  BY <1>2, <1>3, <1>4, <1>5, <1>8 DEF Changed
<1>10. /\ r.user \in {Stored(w.user), Stored(p.user)}
       /\ files = f.files => r.user = Stored(w.user)
  <2>1. CASE w.user = p.user
    BY <1>3, <1>4, <1>5, <1>6, <1>8, <2>1 DEF Changed
  <2>2. CASE w.user # p.user
    BY <1>3, <1>4, <1>5, <1>7, <2>2 DEF Changed
  <2> QED
    BY <2>1, <2>2
<1>11. /\ r.group \in {w.group, p.group}
       /\ files = f.files => r.group = w.group
  <2>1. CASE w.group = p.group
    BY <1>3, <1>4, <1>5, <1>6, <1>8, <2>1 DEF Changed
  <2>2. CASE w.group # p.group
    BY <1>3, <1>4, <1>5, <1>7, <2>2 DEF Changed
  <2> QED
    BY <2>1, <2>2
<1>12. Mixed(r, w, p)
  BY <1>9, <1>10, <1>11 DEF Mixed
<1>13. files = f.files => r = Taken(w)
  BY <1>1, <1>5, <1>9, <1>10, <1>11, TakenIsRule
<1> QED
  BY <1>9, <1>12, <1>13 DEF w, p, c, r

\* The rows of a table that a form was made from, or that it made.
LEMMA GivenRows ==
  ASSUME NEW f \in Forms, NEW d, IsStore(d, Rule),
         Lines(d) = f.page \/ HalfMade(d, f)
  PROVE  \A i \in Kept(f) : /\ i \in DOMAIN d /\ d[i] \in Rule
                            /\ Mixed(d[i], f.want[i], f.page[i])
<1> SUFFICES ASSUME NEW i \in Kept(f)
             PROVE  /\ i \in DOMAIN d /\ d[i] \in Rule
                    /\ Mixed(d[i], f.want[i], f.page[i])
  OBVIOUS
<1>1. \A j \in DOMAIN d : d[j] \in Rule
  BY DEF IsStore, IsTable
<1>2. CASE Lines(d) = f.page
  <2>1. i \in DOMAIN f.page
    BY KeptAreRows
  <2>2. i \in DOMAIN d /\ f.page[i] = Displayed(d[i])
    BY <1>2, <2>1 DEF Lines
  <2>3. d[i] = Taken(f.page[i]) /\ f.page[i] \in Line
    BY <1>1, <2>2, DisplayedIsLine
  <2>4. /\ d[i].dev = f.page[i].dev /\ d[i].user = Stored(f.page[i].user)
        /\ d[i].group = f.page[i].group
    BY <2>3, TakenIsRule
  <2> QED
    BY <1>1, <2>2, <2>4 DEF Mixed
<1>3. CASE HalfMade(d, f)
  BY <1>1, <1>3 DEF HalfMade
<1> QED
  BY <1>2, <1>3

\* A form that was made from a table, or that made it, gives its kept rows their
\* cells, as far as they are filled, and leaves the new one as it is.
LEMMA AmendedAsWanted ==
  ASSUME NEW f \in Forms, NEW d, IsStore(d, Rule),
         Lines(d) = f.page \/ HalfMade(d, f), NEW files \in AccountFiles
  PROVE  LET a == Amended(d, Message(f), DOMAIN Message(f).updated, files)
         IN  /\ \A i \in Kept(f) :
                   /\ i \in DOMAIN a /\ Mixed(a[i], f.want[i], f.page[i])
                   /\ Complete(f.want[i]) =>
                         /\ a[i].dev = f.want[i].dev
                         /\ files = f.files => a[i] = Taken(f.want[i])
             /\ Whole(f) => DOMAIN a = Kept(f) \/ Appended(a, f)
<1> DEFINE m == Message(f)
           a == Amended(d, m, DOMAIN m.updated, files)
<1>1. /\ m.deleted = DOMAIN f.page \ Kept(f)
      /\ DOMAIN m.updated = Altered(f)
  BY MessageFields
<1>2. \A i \in Kept(f) : /\ i \in DOMAIN d /\ d[i] \in Rule
                         /\ Mixed(d[i], f.want[i], f.page[i])
  BY GivenRows
<1>3. Kept(f) \subseteq DOMAIN f.page
  BY KeptAreRows
<1>4. ASSUME NEW i \in Kept(f)
      PROVE  /\ i \in DOMAIN a /\ Mixed(a[i], f.want[i], f.page[i])
             /\ Complete(f.want[i]) =>
                   /\ a[i].dev = f.want[i].dev
                   /\ files = f.files => a[i] = Taken(f.want[i])
  <2>1. i \in DOMAIN d \ m.deleted
    BY <1>1, <1>2
  <2>2. /\ DOMAIN a = DOMAIN d \ m.deleted
        /\ a[i] = IF i \in DOMAIN m.updated
                  THEN Merged(d[i], m.updated[i], files) ELSE d[i]
    BY <2>1 DEF Amended
  <2>3. d[i] \in Rule /\ Mixed(d[i], f.want[i], f.page[i])
    BY <1>2
  <2>4. f.page[i] \in Line
    BY KeptAreRows
  <2>5. CASE i \notin Edited(f)
    <3>1. f.want[i] = f.page[i] /\ a[i] = d[i]
      BY <1>1, <1>3, <2>2, <2>5 DEF Edited, Altered
    <3>2. /\ d[i].dev = f.want[i].dev /\ d[i].user = Stored(f.want[i].user)
          /\ d[i].group = f.want[i].group
      BY <2>3, <3>1 DEF Mixed
    <3>3. d[i] = Taken(f.want[i])
      <4>1. d[i] = [dev |-> d[i].dev, user |-> d[i].user, group |-> d[i].group]
        BY <2>3 DEF Rule
      <4> QED
        BY <2>4, <3>1, <3>2, <4>1, TakenIsRule
    <3> HIDE DEF a, m
    <3> QED
      BY <2>1, <2>2, <2>3, <3>1, <3>2, <3>3
  <2>6. CASE i \in Altered(f)
    <3>1. m.updated[i] = Changes(f, i) /\ i \in DOMAIN m.updated
      BY <1>1, <2>6, MessageFields
    <3> HIDE DEF a, m
    <3>2. a[i] = Merged(d[i], Changes(f, i), files)
      BY <2>2, <3>1
    <3> QED
      BY <2>1, <2>2, <2>3, <2>6, <3>2, MergedRow
  <2>7. CASE ~Complete(f.want[i])
    <3>1. i \notin DOMAIN m.updated
      BY <1>1, <2>7 DEF Altered
    <3> HIDE DEF a, m
    <3> QED
      BY <2>1, <2>2, <2>3, <2>7, <3>1
  <2> QED
    BY <2>5, <2>6, <2>7 DEF Altered
<1>5. DOMAIN a = DOMAIN d \ m.deleted
  BY DEF Amended
<1>6. ASSUME Lines(d) = f.page PROVE DOMAIN a = Kept(f)
  <2>1. DOMAIN d = DOMAIN f.page
    BY <1>6 DEF Lines
  <2> HIDE DEF a, m
  <2> QED
    BY <1>1, <1>3, <1>5, <2>1
<1>7. ASSUME Whole(f), HalfMade(d, f), DOMAIN a # Kept(f) PROVE Appended(a, f)
  <2>1. PICK r : f.new = {r}
    BY <1>2, <1>4, <1>5, <1>7, FormShape DEF HalfMade, Appended
  <2>2. PICK n : n \notin Kept(f) /\ DOMAIN d = Kept(f) \cup {n} /\ d[n] = Taken(r)
    BY <1>7, <2>1 DEF HalfMade, Appended
  <2>3. DOMAIN a = Kept(f) \cup {n}
    BY <1>4, <1>5, <1>7, <2>2
  <2>4. a[n] = d[n]
    BY <1>1, <1>5, <2>2, <2>3, AlteredAreLines DEF Amended
  <2> HIDE DEF a
  <2> QED
    BY <2>1, <2>2, <2>3, <2>4 DEF Appended
<1> HIDE DEF a
<1>8. Whole(f) => DOMAIN a = Kept(f) \/ Appended(a, f)
  BY <1>6, <1>7
<1> QED
  BY <1>4, <1>8 DEF a

\* A rule that is inserted takes an id of its own.
LEMMA InsertedBeside ==
  ASSUME NEW a, IsStore(a, Rule), NEW rule
  PROVE  /\ NextId(a) \notin DOMAIN a
         /\ DOMAIN Inserted(a, rule) = DOMAIN a \cup {NextId(a)}
         /\ \A i \in DOMAIN a : Inserted(a, rule)[i] = a[i]
         /\ Inserted(a, rule)[NextId(a)] = rule
<1>1. NextId(a) \in Nat /\ \A i \in DOMAIN a : i < NextId(a)
  BY NextIdIsFresh
<1>2. ~(NextId(a) < NextId(a))
  BY <1>1
<1>3. NextId(a) \notin DOMAIN a
  BY <1>1, <1>2
<1> QED
  BY <1>3 DEF Inserted

\* A form applied to the table it was made from, or once more to the table it
\* made, makes the table it shows, as far as the rows in it are complete and the
\* names are known.
LEMMA OutcomeIsMade ==
  ASSUME NEW f \in Forms, NEW d, IsStore(d, Rule),
         Lines(d) = f.page \/ HalfMade(d, f), NEW files \in AccountFiles
  PROVE  /\ HalfMade(Outcome(d, Message(f), files), f)
         /\ files = f.files /\ Whole(f) => Made(Outcome(d, Message(f), files), f)
<1> DEFINE m == Message(f)
           a == Amended(d, m, DOMAIN m.updated, files)
           o == Outcome(d, m, files)
           Like(t, i) == /\ i \in DOMAIN t /\ Mixed(t[i], f.want[i], f.page[i])
                         /\ Complete(f.want[i]) =>
                               /\ t[i].dev = f.want[i].dev
                               /\ files = f.files => t[i] = Taken(f.want[i])
<1>1. /\ \A i \in Kept(f) : Like(a, i)
      /\ Whole(f) => DOMAIN a = Kept(f) \/ Appended(a, f)
  BY AmendedAsWanted
<1>2. IsStore(a, Rule)
  BY AmendedIsStore, MessageFields
<1>3. m.created = {r \in f.new : Complete(r)}
  BY MessageFields
<1>4. m.created = {} \/ \E r \in Row : f.new = {r} /\ m.created = {r}
  BY <1>3, FormShape
<1>5. /\ m.created = {} => o = a
      /\ \A r : m.created = {r} => o = IF Known(a, r.dev) THEN a
                                       ELSE Inserted(a, Taken(r))
  <2>1. m.created = {} => o = a
    BY OutcomeIsAmended
  <2>2. ASSUME NEW r, m.created = {r}
        PROVE  o = IF Known(a, r.dev) THEN a ELSE Inserted(a, Taken(r))
    <3>1. CASE Known(a, r.dev)
      BY <2>2, <3>1, OutcomeIsAmended
    <3>2. CASE ~Known(a, r.dev)
      BY <2>2, <3>2, OutcomeIsInserted
    <3> QED
      BY <3>1, <3>2
  <2> QED
    BY <2>1, <2>2
<1> HIDE DEF a, m, o
<1>6. \A i \in Kept(f) : Like(o, i)
  <2>1. o = a \/ \E rule : o = Inserted(a, rule)
    BY <1>4, <1>5
  <2>2. ASSUME NEW rule, o = Inserted(a, rule)
        PROVE  \A i \in DOMAIN a : i \in DOMAIN o /\ o[i] = a[i]
    <3>1. /\ DOMAIN Inserted(a, rule) = DOMAIN a \cup {NextId(a)}
          /\ \A i \in DOMAIN a : Inserted(a, rule)[i] = a[i]
      BY <1>2, InsertedBeside
    <3> QED
      BY <2>2, <3>1
  <2>3. \A i \in DOMAIN a : i \in DOMAIN o /\ o[i] = a[i]
    BY <2>1, <2>2
  <2> QED
    BY <1>1, <2>3
<1>7. ASSUME Whole(f) PROVE Appended(o, f)
  <2>1. CASE f.new = {}
    <3>1. o = a
      BY <1>3, <1>5, <2>1
    <3> QED
      BY <1>1, <1>7, <2>1, <3>1 DEF Appended
  <2>2. ASSUME NEW r \in Line, f.new = {r}, m.created = {r}, Appended(a, f)
        PROVE  Appended(o, f)
    <3>1. Known(a, r.dev)
      <4>1. Taken(r).dev = r.dev
        BY TakenIsRule
      <4> QED
        BY <2>2, <4>1 DEF Appended, Known
    <3>2. o = a
      BY <1>5, <2>2, <3>1
    <3> QED
      BY <2>2, <3>2
  <2>3. ASSUME NEW r \in Line, f.new = {r}, m.created = {r}, DOMAIN a = Kept(f)
        PROVE  Appended(o, f)
    <3>1. \A i \in Kept(f) : f.want[i].dev # r.dev /\ a[i].dev = f.want[i].dev
      BY <1>1, <1>7, <2>3, FormShape, WholeRows DEF NoDuplicateRows
    <3>2. o = Inserted(a, Taken(r))
      BY <1>5, <2>3, <3>1 DEF Known
    <3>3. /\ NextId(a) \notin Kept(f)
          /\ DOMAIN o = Kept(f) \cup {NextId(a)}
          /\ o[NextId(a)] = Taken(r)
      BY <1>2, <2>3, <3>2, InsertedBeside
    <3> QED
      BY <2>3, <3>3 DEF Appended
  <2>4. f.new = {} \/ \E r \in Line : f.new = {r} /\ m.created = {r}
    BY <1>3, <1>7, WholeRows
  <2> QED
    BY <1>1, <1>7, <2>1, <2>2, <2>3, <2>4
<1>8. HalfMade(o, f)
  BY <1>6, <1>7 DEF HalfMade
<1>9. files = f.files /\ Whole(f) => Made(o, f)
  BY <1>6, <1>7, WholeRows DEF Made
<1> QED
  BY <1>8, <1>9 DEF o, m
-----------------------------------------------------------------------------
(* The invariant.                                                            *)

Queued == [from : Clients, form : Forms, late : BOOLEAN]

Shapes ==
    /\ IsStore(rules, Rule) /\ IsStore(file, Rule) /\ IsStore(committed, Rule)
    /\ open \in BOOLEAN /\ fresh \in BOOLEAN
    /\ accounts \in AccountFiles
    /\ found \in [update : AccountFiles, create : AccountFiles]
    /\ pc \in Phases /\ (pc # "idle" => calls # <<>>)
    /\ todo \in Messages
    /\ calls \in Seq(Queued)
    /\ status \in [Clients -> Statuses]
    /\ page \in [Clients -> Pages]
    /\ saves \in 0..MaxSaves /\ accidents \in 0..MaxAccidents
    /\ changes \in 0..MaxChanges

InTransaction == pc \in {"delete", "update", "create", "process"}
Sent == Message(Serving)

Deleting ==
    /\ todo.deleted \subseteq Sent.deleted
    /\ todo.updated = Sent.updated /\ todo.created = Sent.created
    /\ rules = Without(committed, Sent.deleted \ todo.deleted)

Updating ==
    /\ DOMAIN todo.updated \subseteq DOMAIN Sent.updated
    /\ \A i \in DOMAIN todo.updated : todo.updated[i] = Sent.updated[i]
    /\ todo.created = Sent.created
    /\ rules = Amended(committed, Sent, DOMAIN Sent.updated \ DOMAIN todo.updated,
                       found.update)

Creating ==
    \/ /\ todo.created = Sent.created
       /\ rules = Amended(committed, Sent, DOMAIN Sent.updated, found.update)
    \/ todo.created = {} /\ rules = Outcome(committed, Sent, found.update)

Finishing == rules = Outcome(committed, Sent, found.update)

\* What is in memory is what the phases so far make of the last table that was
\* committed.
Applied ==
    /\ InTransaction => open
    /\ ~open => rules = committed
    /\ pc = "begin"   => todo = Sent
    /\ pc = "delete"  => Deleting
    /\ pc = "update"  => Updating
    /\ pc = "create"  => Creating
    /\ pc = "process" => Finishing

\* A call that counts as fresh was made from the table it is applied to, or
\* made it, as far as the names in it were known.
Faithful ==
    /\ InTransaction /\ fresh =>
          Lines(committed) = Serving.page \/ HalfMade(committed, Serving)
    /\ (/\ pc = "reply" /\ fresh
        /\ found.update = Serving.files /\ found.create = Serving.files
        /\ Whole(Serving) /\ ~AppendsBad(Serving))
          => Made(rules, Serving)
    /\ \A f \in done : f \in Forms /\ HalfMade(committed, f)

IInv == Shapes /\ Applied /\ Faithful
-----------------------------------------------------------------------------
LEMMA BoundsAreNaturals ==
  /\ MaxRows \in Nat /\ MaxSaves \in Nat /\ MaxEdits \in Nat /\ MaxAccidents \in Nat
  /\ MaxChanges \in Nat
BY SaveAssumption

LEMMA NothingIsMessage == Nothing \in Messages
<1>1. IsTable(Empty, Change)
  BY EmptyIsStore DEF IsStore
<1>2. Empty \in Tabled(Change)
  BY <1>1, TabledIsTable
<1> QED
  BY <1>2 DEF Nothing, Messages

\* A table without rows is the empty one.
LEMMA NoRowsIsEmpty ==
  ASSUME NEW Values, NEW d \in Tabled(Values)
  PROVE  d = Empty <=> DOMAIN d = {}
BY DEF Tabled, Empty

LEMMA ServedForm ==
  ASSUME Shapes, calls # <<>>
  PROVE  Serving \in Forms /\ Sent \in Messages
<1>1. calls[1] \in Queued
  BY DEF Shapes
<1> QED
  BY <1>1, MessageFields DEF Queued, Serving, Sent

LEMMA InitShapes ==
  ASSUME Init PROVE Shapes
<1>1. PICK n \in 0..MaxRows : rules \in [0..(n - 1) -> Rule]
  BY DEF Init, Tables
<1>2. IsStore(rules, Rule)
  <2>1. DOMAIN rules \subseteq Nat /\ n \in Nat /\ DOMAIN rules \subseteq 0..n
    BY <1>1, BoundsAreNaturals
  <2> QED
    BY <1>1, <2>1 DEF IsStore, IsTable
<1>3. Empty \in Tabled(Line)
  BY EmptyIsStore, TabledIsTable DEF IsStore
<1>4. IsStore(file, Rule) /\ IsStore(committed, Rule)
  BY <1>2 DEF Init
<1>5. status \in [Clients -> Statuses] /\ page \in [Clients -> Pages]
  BY <1>3 DEF Init, Statuses, Pages
<1>6. /\ saves \in 0..MaxSaves /\ accidents \in 0..MaxAccidents
      /\ changes \in 0..MaxChanges
  BY BoundsAreNaturals DEF Init
<1>7. /\ accounts \in AccountFiles
      /\ found \in [update : AccountFiles, create : AccountFiles]
      /\ pc \in Phases /\ (pc # "idle" => calls # <<>>)
  BY DEF Init, Phases
<1>8. open \in BOOLEAN /\ fresh \in BOOLEAN
  BY DEF Init
<1>9. calls \in Seq(Queued)
  BY DEF Init
<1> QED
  BY <1>2, <1>4, <1>5, <1>6, <1>7, <1>8, <1>9, NothingIsMessage DEF Init, Shapes

LEMMA InitIInv ==
  ASSUME Init PROVE IInv
BY InitShapes DEF Init, IInv, Applied, Faithful, InTransaction

\* The invariant gives the types.
LEMMA ShapesAreTypes ==
  ASSUME Shapes PROVE TypeOK
<1>1. IsRules(rules) /\ IsRules(file) /\ IsRules(committed)
  BY DEF Shapes, IsStore, IsRules
<1>2. \A c \in Clients : page[c].files \in AccountFiles /\ IsTable(page[c].lines, Line)
  BY TabledIsTable DEF Shapes, Pages
<1>3. /\ todo.deleted \subseteq Nat /\ todo.created \subseteq Line
      /\ IsTable(todo.updated, Change)
  BY TabledIsTable DEF Shapes, Messages
<1> QED
  BY <1>1, <1>2, <1>3 DEF Shapes, TypeOK
-----------------------------------------------------------------------------
(* Steps beside the thread that serves the calls.                            *)

Aside ==
    /\ UNCHANGED <<rules, file, open, pc, todo, found, past>>
    /\ calls # <<>> => Serving' = Serving

Elsewhere ==
    \/ UNCHANGED vars \/ ChangeAccounts
    \/ \E c \in Clients : LoadAccounts(c) \/ LoadRules(c) \/ Submit(c) \/ TimeOut(c)

LEMMA ElsewhereSteps ==
  ASSUME Shapes, Elsewhere
  PROVE  Shapes' /\ Aside
<1> USE DEF daemon, pages, past, bounds
<1>1. CASE UNCHANGED vars
  BY <1>1 DEF vars, Shapes, Aside, Serving
<1>2. CASE ChangeAccounts
  <2>1. changes' \in 0..MaxChanges
    BY <1>2, BoundsAreNaturals DEF ChangeAccounts, Shapes
  <2> QED
    BY <1>2, <2>1 DEF ChangeAccounts, Shapes, Aside, Serving
<1>3. ASSUME NEW c \in Clients, LoadAccounts(c) \/ LoadRules(c)
      PROVE  Shapes' /\ Aside
  <2>1. Lines(rules) \in Tabled(Line) /\ accounts \in AccountFiles
    BY LinesOfStore DEF Shapes
  <2>2. page[c] \in Pages
    BY DEF Shapes
  <2>3. /\ [page[c] EXCEPT !.files = accounts] \in Pages
        /\ [page[c] EXCEPT !.lines = Lines(rules)] \in Pages
    BY <2>1, <2>2 DEF Pages
  <2>4. page' \in [Clients -> Pages]
    BY <1>3, <2>3 DEF LoadAccounts, LoadRules, Shapes
  <2> QED
    BY <1>3, <2>4 DEF LoadAccounts, LoadRules, Shapes, Statuses, Aside, Serving
<1>4. ASSUME NEW c \in Clients, Submit(c) PROVE Shapes' /\ Aside
  <2>1. PICK f \in FormsOf(page[c]) :
           calls' = Append(calls, [from |-> c, form |-> f, late |-> FALSE])
    BY <1>4 DEF Submit
  <2>2. f \in Forms
    BY DEF Forms, Shapes, Pages
  <2>3. [from |-> c, form |-> f, late |-> FALSE] \in Queued
    BY <2>2 DEF Queued
  <2>4. calls' \in Seq(Queued) /\ calls' # <<>> /\ (calls # <<>> => calls'[1] = calls[1])
    BY <2>1, <2>3 DEF Shapes
  <2>5. saves' \in 0..MaxSaves
    BY <1>4, BoundsAreNaturals DEF Submit, Shapes
  <2> QED
    BY <1>4, <2>4, <2>5 DEF Submit, Shapes, Statuses, Aside, Serving
<1>5. ASSUME NEW c \in Clients, TimeOut(c) PROVE Shapes' /\ Aside
  <2>1. accidents' \in 0..MaxAccidents
    BY <1>5, BoundsAreNaturals DEF TimeOut, Accident, Shapes
  <2>2. calls' = [k \in DOMAIN calls |->
                    [calls[k] EXCEPT !.late = @ \/ calls[k].from = c]]
    BY <1>5 DEF TimeOut
  <2>3. \A k \in DOMAIN calls : /\ calls'[k] \in Queued
                                /\ calls'[k].form = calls[k].form
    <3>1. ASSUME NEW q \in Queued, NEW b \in BOOLEAN
          PROVE  [q EXCEPT !.late = b] \in Queued /\ [q EXCEPT !.late = b].form = q.form
      BY DEF Queued
    <3>2. TAKE k \in DOMAIN calls
    <3>3. calls[k] \in Queued
      BY DEF Shapes
    <3>4. (calls[k].late \/ calls[k].from = c) \in BOOLEAN
      OBVIOUS
    <3>5. calls'[k] = [calls[k] EXCEPT !.late = (calls[k].late \/ calls[k].from = c)]
      BY <2>2
    <3> QED
      BY <3>1, <3>3, <3>4, <3>5
  <2>4. calls' \in Seq(Queued) /\ DOMAIN calls' = DOMAIN calls
    BY <2>2, <2>3 DEF Shapes
  <2>5. calls # <<>> => calls' # <<>> /\ calls'[1].form = calls[1].form
    BY <2>3, <2>4 DEF Shapes
  <2> QED
    BY <1>5, <2>1, <2>4, <2>5 DEF TimeOut, Shapes, Statuses, Aside, Serving
<1> QED
  BY <1>1, <1>2, <1>3, <1>4, <1>5 DEF Elsewhere
-----------------------------------------------------------------------------
(* Steps of the thread that serves the calls, and the end of the process.    *)

LEMMA ServeShapes ==
  ASSUME Shapes, Serve \/ Crash
  PROVE  Shapes'
<1> USE DEF daemon, pages, past, bounds
<1>1. CASE Take
  <2>1. calls # <<>> /\ todo' = Sent
    BY <1>1 DEF Take, Sent
  <2>2. todo' \in Messages
    BY <2>1, ServedForm
  <2> QED
    BY <1>1, <2>1, <2>2 DEF Take, Shapes, Phases
<1>2. CASE StartTransaction
  <2>1. fresh' \in BOOLEAN
    BY <1>2 DEF StartTransaction
  <2> QED
    BY <1>2, <2>1 DEF StartTransaction, Shapes, Phases
<1>3. CASE NextPhase
  <2>1. found' \in [update : AccountFiles, create : AccountFiles]
    BY <1>3 DEF NextPhase, Shapes
  <2> QED
    BY <1>3, <2>1 DEF NextPhase, Shapes, Phases
<1>4. CASE DeleteRule
  <2>1. todo' \in Messages
    BY <1>4 DEF DeleteRule, Shapes, Messages
  <2>2. IsStore(rules', Rule)
    BY <1>4, WithoutIsStore DEF DeleteRule, Shapes
  <2> QED
    BY <1>4, <2>1, <2>2 DEF DeleteRule, Shapes
<1>5. CASE UpdateRule
  <2> DEFINE i == Min(DOMAIN todo.updated)
  <2>1. IsTable(todo.updated, Change) /\ todo.updated # Empty
    BY <1>5, TabledIsTable DEF UpdateRule, Shapes, Messages
  <2>2. i \in DOMAIN todo.updated
    BY <2>1, NoRowsIsEmpty, TabledIsTable, MinOfIds DEF IsTable
  <2>3. todo.updated[i] \in Change /\ i \in DOMAIN rules /\ rules[i] \in Rule
    BY <1>5, <2>1, <2>2 DEF UpdateRule, IsTable, IsStore, Shapes
  <2>4. Merged(rules[i], todo.updated[i], found.update) \in Rule
    BY <2>3, MergedIsRule DEF Shapes
  <2>5. /\ rules' = Replaced(rules, i, Merged(rules[i], todo.updated[i], found.update))
        /\ todo' = [todo EXCEPT !.updated = Without(@, {i})]
    BY <1>5 DEF UpdateRule
  <2> HIDE DEF i
  <2>6. IsStore(rules', Rule)
    BY <2>4, <2>5, ReplacedIsStore DEF Shapes
  <2>7. IsTable(Without(todo.updated, {i}), Change)
    BY <2>1 DEF IsTable, Without, Restrict
  <2>8. todo' \in Messages
    BY <2>5, <2>7, TabledIsTable DEF Shapes, Messages
  <2> QED
    BY <1>5, <2>6, <2>8 DEF UpdateRule, Shapes
<1>6. CASE CreateRule
  <2>1. PICK r \in todo.created :
           /\ rules' = IF Known(rules, r.dev) THEN rules
                       ELSE Inserted(rules, Taken(r))
           /\ todo' = [todo EXCEPT !.created = @ \ {r}]
    BY <1>6 DEF CreateRule
  <2>2. todo' \in Messages /\ Taken(r) \in Rule
    <3>1. r \in Line
      BY <2>1 DEF Shapes, Messages
    <3> QED
      BY <2>1, <3>1, TakenIsRule DEF Shapes, Messages
  <2>3. IsStore(rules', Rule)
    BY <2>1, <2>2, InsertedIsStore DEF Shapes
  <2> QED
    BY <1>6, <2>2, <2>3 DEF CreateRule, Shapes
<1>7. CASE Throw
  BY <1>7, NothingIsMessage DEF Throw, Throws, Shapes, Phases
<1>8. CASE ProcessTransaction
  <2>1. PICK written \in BOOLEAN : Commit(written)
    BY <1>8 DEF ProcessTransaction
  <2>2. /\ saves' \in 0..MaxSaves /\ accidents' \in 0..MaxAccidents
        /\ changes' \in 0..MaxChanges
    <3>1. UNCHANGED bounds \/ (Accident /\ UNCHANGED <<saves, changes>>)
      BY <1>8 DEF ProcessTransaction
    <3>2. /\ saves' = saves /\ changes' = changes
          /\ \/ accidents' = accidents
             \/ accidents < MaxAccidents /\ accidents' = accidents + 1
      BY <3>1 DEF Accident
    <3> QED
      BY <3>2, BoundsAreNaturals DEF Shapes
  <2> QED
    BY <2>1, <2>2 DEF Commit, Shapes, Phases
<1>9. CASE Reply
  <2>1. calls # <<>>
    BY <1>9 DEF Reply, Shapes
  <2>2. calls' \in Seq(Queued)
    BY <1>9, <2>1 DEF Reply, Shapes
  <2>3. status' \in [Clients -> Statuses]
    BY <1>9 DEF Reply, Shapes, Statuses
  <2> QED
    BY <1>9, <2>2, <2>3 DEF Reply, Shapes, Phases
<1>10. CASE Crash
  <2>1. accidents' \in 0..MaxAccidents
    BY <1>10, BoundsAreNaturals DEF Crash, Accident, Shapes
  <2>2. status' \in [Clients -> Statuses]
    BY <1>10 DEF Crash, Shapes, Statuses
  <2>3. calls' \in Seq(Queued) /\ calls' = <<>>
    BY <1>10 DEF Crash
  <2> QED
    BY <1>10, <2>1, <2>2, <2>3, NothingIsMessage DEF Crash, Shapes, Phases
<1> QED
  BY <1>1, <1>2, <1>3, <1>4, <1>5, <1>6, <1>7, <1>8, <1>9, <1>10 DEF Serve
-----------------------------------------------------------------------------
(* The phases of a transaction.                                              *)

LEMMA StoreIsFunction ==
  ASSUME NEW Values, NEW d, IsStore(d, Values)
  PROVE  d = [i \in DOMAIN d |-> d[i]]
BY DEF IsStore, IsTable

\* Nothing in the phases depends on the pages or on calls that wait.
LEMMA ElsewhereApplied ==
  ASSUME Shapes, Applied, Aside PROVE Applied'
<1>1. InTransaction \/ pc = "begin" => Sent' = Sent
  BY DEF Shapes, Aside, Sent, InTransaction
<1>2. UNCHANGED <<rules, open, pc, todo, found, committed>>
  BY DEF Aside, past
<1>3. pc = "delete" => Deleting'
  BY <1>1, <1>2 DEF Applied, Deleting, InTransaction
<1>4. pc = "update" => Updating'
  BY <1>1, <1>2 DEF Applied, Updating, InTransaction
<1>5. pc = "create" => Creating'
  BY <1>1, <1>2 DEF Applied, Creating, InTransaction
<1>6. pc = "process" => Finishing'
  BY <1>1, <1>2 DEF Applied, Finishing, InTransaction
<1> QED
  BY <1>1, <1>2, <1>3, <1>4, <1>5, <1>6 DEF Applied, InTransaction

\* A transaction starts with the table that was committed.
LEMMA StartDeletes ==
  ASSUME Shapes, Applied, StartTransaction PROVE Deleting'
<1>1. /\ todo' = Sent /\ rules' = committed /\ committed' = committed
      /\ calls' = calls
  BY DEF StartTransaction, Applied
<1>2. Sent' = Sent
  BY <1>1 DEF Sent, Serving
<1>3. committed = Without(committed, {})
  <2>1. committed = [i \in DOMAIN committed |-> committed[i]]
    BY StoreIsFunction DEF Shapes
  <2> QED
    BY <2>1 DEF Without, Restrict
<1> QED
  BY <1>1, <1>2, <1>3 DEF Deleting

\* One row after the other goes.
LEMMA DeleteDeletes ==
  ASSUME Shapes, Applied, DeleteRule PROVE Deleting'
<1> DEFINE i == Min(todo.deleted)
<1>1. i \in todo.deleted
  BY MinOfIds DEF DeleteRule, Shapes, Messages
<1>2. /\ rules' = Without(rules, {i}) /\ todo' = [todo EXCEPT !.deleted = @ \ {i}]
      /\ committed' = committed /\ calls' = calls
  BY DEF DeleteRule, past
<1> HIDE DEF i
<1>3. Sent' = Sent
  BY <1>2 DEF Sent, Serving
<1>4. Deleting
  BY DEF Applied, DeleteRule
<1>5. /\ todo'.deleted = todo.deleted \ {i}
      /\ todo'.updated = todo.updated /\ todo'.created = todo.created
  BY <1>2 DEF Shapes, Messages
<1>6. Without(Without(committed, Sent.deleted \ todo.deleted), {i})
        = Without(committed, Sent.deleted \ todo'.deleted)
  <2>1. Sent.deleted \ todo'.deleted = (Sent.deleted \ todo.deleted) \cup {i}
    BY <1>1, <1>4, <1>5 DEF Deleting
  <2> QED
    BY <2>1 DEF Without, Restrict
<1> QED
  BY <1>2, <1>3, <1>4, <1>5, <1>6 DEF Deleting

\* When all deletions are done, no update is.
LEMMA UpdatesStart ==
  ASSUME Shapes, Applied, NextPhase, pc = "delete" PROVE Updating'
<1>1. /\ todo.deleted = {} /\ rules' = rules /\ todo' = todo
      /\ committed' = committed /\ calls' = calls
  BY DEF NextPhase, past
<1>2. Deleting
  BY DEF Applied
<1>3. Sent' = Sent
  BY <1>1 DEF Sent, Serving
<1>4. rules = Without(committed, Sent.deleted)
  BY <1>1, <1>2 DEF Deleting
<1>5. Without(committed, Sent.deleted) = Amended(committed, Sent, {}, found'.update)
  BY DEF Without, Restrict, Amended
<1>6. DOMAIN Sent.updated \ DOMAIN todo.updated = {}
  BY <1>2 DEF Deleting
<1> QED
  BY <1>1, <1>2, <1>3, <1>4, <1>5, <1>6 DEF Updating, Deleting

\* One row after the other takes the fields that were sent.
LEMMA UpdateUpdates ==
  ASSUME Shapes, Applied, UpdateRule PROVE Updating'
<1> DEFINE i == Min(DOMAIN todo.updated)
           done1 == DOMAIN Sent.updated \ DOMAIN todo.updated
<1>1. IsTable(todo.updated, Change) /\ todo.updated # Empty
  BY TabledIsTable DEF UpdateRule, Shapes, Messages
<1>2. i \in DOMAIN todo.updated
  BY <1>1, NoRowsIsEmpty, TabledIsTable, MinOfIds DEF IsTable
<1>3. /\ i \in DOMAIN rules
      /\ rules' = Replaced(rules, i, Merged(rules[i], todo.updated[i], found.update))
      /\ todo' = [todo EXCEPT !.updated = Without(@, {i})]
      /\ found' = found /\ committed' = committed /\ calls' = calls
  BY DEF UpdateRule, past
<1> HIDE DEF i
<1>4. Sent' = Sent
  BY <1>3 DEF Sent, Serving
<1>5. Updating
  BY DEF Applied, UpdateRule
<1>6. /\ todo'.updated = Without(todo.updated, {i}) /\ todo'.created = todo.created
  BY <1>3 DEF Shapes, Messages
<1>7. /\ DOMAIN todo'.updated = DOMAIN todo.updated \ {i}
      /\ \A j \in DOMAIN todo'.updated : todo'.updated[j] = todo.updated[j]
  BY <1>6 DEF Without, Restrict
<1>8. DOMAIN Sent.updated \ DOMAIN todo'.updated = done1 \cup {i}
  BY <1>2, <1>5, <1>7 DEF Updating
<1>9. rules = Amended(committed, Sent, done1, found.update) /\ i \notin done1
  BY <1>2, <1>5 DEF Updating
<1>10. todo.updated[i] = Sent.updated[i]
  BY <1>2, <1>5 DEF Updating
<1> HIDE DEF done1
<1>11. rules' = Amended(committed, Sent, done1 \cup {i}, found.update)
  <2>1. DOMAIN rules = DOMAIN committed \ Sent.deleted /\ rules[i] = committed[i]
    BY <1>3, <1>9 DEF Amended
  <2>2. rules' = [j \in DOMAIN committed \ Sent.deleted |->
                    IF j = i THEN Merged(committed[i], Sent.updated[i], found.update)
                    ELSE rules[j]]
    BY <1>3, <1>9, <1>10, <2>1 DEF Replaced, Amended
  <2>3. \A j \in DOMAIN committed \ Sent.deleted :
           rules[j] = IF j \in done1 THEN Merged(committed[j], Sent.updated[j], found.update)
                      ELSE committed[j]
    BY <1>9 DEF Amended
  <2> QED
    BY <2>2, <2>3 DEF Amended
<1> QED
  BY <1>3, <1>4, <1>5, <1>6, <1>7, <1>8, <1>11 DEF Updating

\* When all updates are done, the rows are those that the accounts found give.
LEMMA CreationsStart ==
  ASSUME Shapes, Applied, NextPhase, pc = "update" PROVE Creating'
<1>1. /\ todo.updated = Empty /\ rules' = rules /\ todo' = todo
      /\ committed' = committed /\ calls' = calls
      /\ found'.update = found.update
  BY DEF NextPhase, past, Shapes
<1>2. Updating
  BY DEF Applied
<1>3. Sent' = Sent
  BY <1>1 DEF Sent, Serving
<1>4. DOMAIN todo.updated = {}
  BY <1>1 DEF Empty
<1>5. DOMAIN Sent.updated \ DOMAIN todo.updated = DOMAIN Sent.updated
  BY <1>4
<1>6. /\ rules = Amended(committed, Sent, DOMAIN Sent.updated, found.update)
      /\ todo.created = Sent.created
  BY <1>2, <1>5 DEF Updating
<1> QED
  BY <1>1, <1>3, <1>6 DEF Creating

\* The one rule that a form may create completes what its message makes.
LEMMA CreateCreates ==
  ASSUME Shapes, Applied, CreateRule PROVE Creating'
<1>1. PICK r \in todo.created :
         /\ rules' = IF Known(rules, r.dev) THEN rules
                     ELSE Inserted(rules, Taken(r))
         /\ todo' = [todo EXCEPT !.created = @ \ {r}]
  BY DEF CreateRule
<1>2. /\ committed' = committed /\ calls' = calls /\ found' = found
      /\ pc = "create" /\ calls # <<>>
  BY DEF CreateRule, past, Shapes
<1>3. Sent' = Sent
  BY <1>2 DEF Sent, Serving
<1>4. /\ todo.created = Sent.created
      /\ rules = Amended(committed, Sent, DOMAIN Sent.updated, found.update)
  BY <1>1, <1>2 DEF Applied, Creating
<1>5. Sent.created = {r}
  <2>1. Serving \in Forms
    BY <1>2, ServedForm
  <2> QED
    BY <1>1, <1>4, <2>1, FormShape, MessageFields DEF Sent
<1>6. todo'.created = {}
  BY <1>1, <1>4, <1>5 DEF Shapes, Messages
<1>7. rules' = Outcome(committed, Sent, found.update)
  <2>1. CASE Known(rules, r.dev)
    BY <1>1, <1>4, <1>5, <2>1, OutcomeIsAmended
  <2>2. CASE ~Known(rules, r.dev)
    BY <1>1, <1>4, <1>5, <2>2, OutcomeIsInserted
  <2> QED
    BY <2>1, <2>2
<1> QED
  BY <1>2, <1>3, <1>6, <1>7 DEF Creating

LEMMA CreationsEnd ==
  ASSUME Shapes, Applied, NextPhase, pc = "create" PROVE Finishing'
<1>1. /\ todo.created = {} /\ rules' = rules /\ found' = found
      /\ committed' = committed /\ calls' = calls
  BY DEF NextPhase, past
<1>2. Sent' = Sent
  BY <1>1 DEF Sent, Serving
<1>3. Creating
  BY DEF Applied
<1>4. rules = Outcome(committed, Sent, found.update)
  <2>1. CASE Sent.created = {}
         /\ rules = Amended(committed, Sent, DOMAIN Sent.updated, found.update)
    BY <2>1, OutcomeIsAmended
  <2> QED
    BY <1>1, <1>3, <2>1 DEF Creating
<1> QED
  BY <1>1, <1>2, <1>4 DEF Finishing

\* Every step keeps the phases in order.
LEMMA ServeApplied ==
  ASSUME Shapes, Applied, Serve \/ Crash PROVE Applied'
<1> USE DEF past, InTransaction
<1>1. CASE Take
  BY <1>1 DEF Take, Applied, Sent, Serving
<1>2. CASE StartTransaction
  <2>1. Deleting'
    BY <1>2, StartDeletes
  <2>2. open' = TRUE /\ pc' = "delete"
    BY <1>2 DEF StartTransaction
  <2> QED
    BY <2>1, <2>2 DEF Applied
<1>3. CASE NextPhase
  <2>1. open' = open /\ rules' = rules /\ committed' = committed
    BY <1>3 DEF NextPhase
  <2>2. CASE pc = "delete"
    <3>1. pc' = "update" /\ Updating'
      BY <1>3, <2>2, UpdatesStart DEF NextPhase
    <3> QED
      BY <2>1, <2>2, <3>1 DEF Applied
  <2>3. CASE pc = "update"
    <3>1. pc' = "create" /\ Creating'
      BY <1>3, <2>3, CreationsStart DEF NextPhase
    <3> QED
      BY <2>1, <2>3, <3>1 DEF Applied
  <2>4. CASE pc = "create"
    <3>1. pc' = "process" /\ Finishing'
      BY <1>3, <2>4, CreationsEnd DEF NextPhase
    <3> QED
      BY <2>1, <2>4, <3>1 DEF Applied
  <2> QED
    BY <1>3, <2>2, <2>3, <2>4 DEF NextPhase
<1>4. CASE DeleteRule
  <2>1. Deleting'
    BY <1>4, DeleteDeletes
  <2> QED
    BY <1>4, <2>1 DEF DeleteRule, Applied
<1>5. CASE UpdateRule
  <2>1. Updating'
    BY <1>5, UpdateUpdates
  <2> QED
    BY <1>5, <2>1 DEF UpdateRule, Applied
<1>6. CASE CreateRule
  <2>1. Creating'
    BY <1>6, CreateCreates
  <2>2. pc = "create" /\ pc' = pc /\ open' = open
    BY <1>6 DEF CreateRule
  <2> QED
    BY <2>1, <2>2 DEF Applied
<1>7. CASE Throw
  BY <1>7 DEF Throw, Applied
<1>8. CASE ProcessTransaction
  <2>1. PICK written \in BOOLEAN : Commit(written)
    BY <1>8 DEF ProcessTransaction
  <2> QED
    BY <2>1 DEF Commit, Applied
<1>9. CASE Reply
  BY <1>9 DEF Reply, Applied
<1>10. CASE Crash
  BY <1>10 DEF Crash, Applied
<1> QED
  BY <1>1, <1>2, <1>3, <1>4, <1>5, <1>6, <1>7, <1>8, <1>9, <1>10 DEF Serve
-----------------------------------------------------------------------------
(* What was shown is saved.                                                  *)

LEMMA ElsewhereFaithful ==
  ASSUME Shapes, Faithful, Aside PROVE Faithful'
<1>1. UNCHANGED <<rules, pc, found, committed, fresh, done>>
  BY DEF Aside, past
<1>2. pc # "idle" => Serving' = Serving
  BY DEF Aside, Shapes
<1>3. InTransaction' = InTransaction /\ (InTransaction => pc # "idle")
  BY <1>1 DEF InTransaction
<1> QED
  BY <1>1, <1>2, <1>3 DEF Faithful

\* The rows that a fresh form updates are there, and the names of the row that
\* it appends are accepted by the files that offered them.
LEMMA FreshDoesNotThrow ==
  ASSUME Shapes, Applied, Faithful PROVE OnlyStaleFormsThrow
<1> SUFFICES ASSUME Throws, fresh
             PROVE  /\ pc = "create"
                    /\ found.create # Serving.files \/ AppendsBad(Serving)
  BY DEF OnlyStaleFormsThrow
<1>1. calls # <<>> /\ InTransaction
  BY DEF Throws, Shapes, InTransaction
<1>2. Serving \in Forms
  BY <1>1, ServedForm
<1>3. Kept(Serving) \subseteq DOMAIN committed
  <2>1. Lines(committed) = Serving.page \/ HalfMade(committed, Serving)
    BY <1>1 DEF Faithful
  <2>2. IsStore(committed, Rule)
    BY DEF Shapes
  <2> QED
    BY <1>2, <2>1, <2>2, GivenRows
<1>4. ASSUME pc = "update", todo.updated # Empty,
             Min(DOMAIN todo.updated) \notin DOMAIN rules
      PROVE  FALSE
  <2> DEFINE i == Min(DOMAIN todo.updated)
  <2>1. IsTable(todo.updated, Change)
    BY TabledIsTable DEF Shapes, Messages
  <2>2. i \in DOMAIN todo.updated
    BY <1>4, <2>1, NoRowsIsEmpty, TabledIsTable, MinOfIds DEF IsTable
  <2> HIDE DEF i
  <2>3. Updating
    BY <1>4 DEF Applied
  <2>4. i \in Kept(Serving) /\ i \notin Sent.deleted
    BY <1>2, <2>2, <2>3, MessageFields, AlteredAreLines DEF Updating, Sent
  <2>5. DOMAIN rules = DOMAIN committed \ Sent.deleted
    BY <2>3 DEF Updating, Amended
  <2> QED
    BY <1>3, <1>4, <2>4, <2>5 DEF i
<1>5. ASSUME pc = "create", NEW r \in todo.created, ~Valid(r, found.create),
             found.create = Serving.files, ~AppendsBad(Serving)
      PROVE  FALSE
  <2>1. Creating
    BY <1>5 DEF Applied
  <2>2. r \in Serving.new /\ Complete(r)
    BY <1>2, <1>5, <2>1, MessageFields DEF Creating, Sent
  <2>3. r \in Line /\ Serving.files \in AccountFiles
    BY <1>2, <2>2, FormShape, CompleteIsLine
  <2>4. /\ r.user \in Offered[Serving.files].users
        /\ r.group \in Offered[Serving.files].groups
    BY <1>2, <2>2, FormChoices
  <2>5. /\ Stored(r.user) \in Accepted[Serving.files].users
        /\ r.group \in Accepted[Serving.files].groups
    BY <2>3, <2>4, OfferedIsAccepted
  <2>6. Taken(r).user = Stored(r.user)
    BY <2>3, TakenIsRule
  <2> QED
    BY <1>5, <2>2, <2>5, <2>6 DEF Valid, AppendsBad
<1> QED
  BY <1>4, <1>5 DEF Throws

LEMMA ServeFaithful ==
  ASSUME Shapes, Applied, Faithful, Serve \/ Crash PROVE Faithful'
<1> USE DEF past, InTransaction
<1>1. CASE Take
  BY <1>1 DEF Take, Faithful
<1>2. CASE StartTransaction
  <2>1. fresh' = (Serving.page = Lines(committed) \/ Serving \in done)
    BY <1>2 DEF StartTransaction
  <2>2. /\ Serving' = Serving /\ pc' = "delete"
        /\ committed' = committed /\ done' = done
    BY <1>2 DEF StartTransaction, Serving
  <2> QED
    BY <2>1, <2>2 DEF Faithful
<1>3. CASE NextPhase \/ DeleteRule \/ UpdateRule \/ CreateRule
  <2>1. /\ Serving' = Serving
        /\ committed' = committed /\ fresh' = fresh /\ done' = done
    BY <1>3 DEF NextPhase, DeleteRule, UpdateRule, CreateRule, Serving
  <2>2. InTransaction /\ pc' \in {"delete", "update", "create", "process"}
    BY <1>3 DEF NextPhase, DeleteRule, UpdateRule, CreateRule
  <2> QED
    BY <2>1, <2>2 DEF Faithful
<1>4. CASE Throw
  <2>1. /\ Serving' = Serving /\ pc' = "reply" /\ found' = found
        /\ committed' = committed /\ fresh' = fresh /\ done' = done
    BY <1>4 DEF Throw, Serving
  <2>2. fresh => found.create # Serving.files \/ AppendsBad(Serving)
    BY <1>4, FreshDoesNotThrow DEF Throw, OnlyStaleFormsThrow
  <2> QED
    BY <2>1, <2>2 DEF Faithful
<1>5. CASE ProcessTransaction
  <2>1. PICK written \in BOOLEAN : Commit(written)
    BY <1>5 DEF ProcessTransaction
  <2>2. /\ Serving' = Serving /\ found' = found /\ pc' = "reply"
        /\ committed' = rules /\ rules' = rules /\ fresh' = fresh
        /\ done' = IF fresh THEN {Serving} ELSE {}
    BY <1>5, <2>1 DEF ProcessTransaction, Commit, Serving
  <2>3. pc = "process" /\ calls # <<>> /\ IsStore(committed, Rule)
    BY <2>1 DEF Commit, Shapes
  <2>4. Serving \in Forms
    BY <2>3, ServedForm
  <2>5. rules = Outcome(committed, Sent, found.update) /\ found.update \in AccountFiles
    BY <2>3 DEF Applied, Finishing, Shapes
  <2>6. fresh => /\ HalfMade(rules, Serving)
                 /\ found.update = Serving.files /\ Whole(Serving) => Made(rules, Serving)
    <3>1. SUFFICES ASSUME fresh
                   PROVE  /\ HalfMade(rules, Serving)
                          /\ found.update = Serving.files /\ Whole(Serving)
                                => Made(rules, Serving)
      OBVIOUS
    <3>2. Lines(committed) = Serving.page \/ HalfMade(committed, Serving)
      BY <2>3, <3>1 DEF Faithful
    <3> QED
      BY <2>3, <2>4, <2>5, <3>2, OutcomeIsMade DEF Sent
  <2> QED
    BY <2>2, <2>4, <2>6 DEF Faithful
<1>6. CASE Reply
  <2>1. pc' = "idle" /\ committed' = committed /\ done' = done
    BY <1>6 DEF Reply
  <2> QED
    BY <2>1 DEF Faithful
<1>7. CASE Crash
  <2>1. /\ pc' = "idle" /\ committed' = file
        /\ done' = IF file = committed THEN done ELSE {}
    BY <1>7 DEF Crash
  <2> QED
    BY <2>1 DEF Faithful
<1> QED
  BY <1>1, <1>2, <1>3, <1>4, <1>5, <1>6, <1>7 DEF Serve
-----------------------------------------------------------------------------
LEMMA StepKinds ==
  ASSUME [Next]_vars PROVE Elsewhere \/ Serve \/ Crash
BY DEF Next, Elsewhere

\* The invariant holds initially and every step keeps it.
THEOREM SaveInvariance == Spec => []IInv
<1>1. Init => IInv
  BY InitIInv
<1>2. IInv /\ [Next]_vars => IInv'
  <2>1. SUFFICES ASSUME IInv, [Next]_vars PROVE IInv'
    OBVIOUS
  <2>2. CASE Elsewhere
    BY <2>1, <2>2, ElsewhereSteps, ElsewhereApplied, ElsewhereFaithful DEF IInv
  <2>3. CASE Serve \/ Crash
    BY <2>1, <2>3, ServeShapes, ServeApplied, ServeFaithful DEF IInv
  <2> QED
    BY <2>1, <2>2, <2>3, StepKinds
<1> QED
  BY <1>1, <1>2, PTL DEF Spec

\* The stores, the message that is served, the calls and the pages keep their
\* types: ids are never negative, and a merged rule is a rule.
THEOREM SaveTypes == Spec => []TypeOK
<1>1. IInv => TypeOK
  BY ShapesAreTypes DEF IInv
<1> QED
  BY <1>1, SaveInvariance, PTL

\* When the answer comes, the page would show what it showed, if all its cells
\* were filled and no bad row was appended: deletions, updates and creations, in
\* the order of SaveRules and with ids given again, do not get into each other's
\* way, also when the form is sent once more.
THEOREM ShownIsSaved == Spec => []SavedAsShown
<1>1. IInv => SavedAsShown
  <2>1. SUFFICES ASSUME IInv, pc = "reply", fresh,
                        found.update = Serving.files, found.create = Serving.files,
                        Whole(Serving), ~AppendsBad(Serving)
                 PROVE  Range(Lines(rules)) = Shown(Serving) /\ Unique(rules)
    BY DEF SavedAsShown
  <2>2. Made(rules, Serving)
    BY <2>1 DEF IInv, Faithful
  <2>3. Serving \in Forms
    BY <2>1, ServedForm DEF IInv, Shapes
  <2> QED
    BY <2>1, <2>2, <2>3, MadeIsShown
<1> QED
  BY <1>1, SaveInvariance, PTL

\* The lists of names that GetSystemUsersAndGroups offers and the checks of
\* CreateRules and UpdateRules fit together: only a form made from other rules
\* or other account files, or one that appends a device its page had marked as
\* bad, makes SaveRules throw and keep its locks.
THEOREM StaleFormsThrow == Spec => []OnlyStaleFormsThrow
<1>1. IInv => OnlyStaleFormsThrow
  BY FreshDoesNotThrow DEF IInv
<1> QED
  BY <1>1, SaveInvariance, PTL

\* Only ProcessTransaction writes the file, and what it writes is one form,
\* complete: no part of a form that failed half-way reaches the disk.
THEOREM WholeForms == Spec => FileTakesWholeForms
<1> DEFINE Step == file' # file =>
             file' = Outcome(committed, Message(Serving), found.update)
<1>1. IInv /\ [Next]_vars => Step
  <2>1. SUFFICES ASSUME IInv, [Next]_vars, file' # file
                 PROVE  file' = Outcome(committed, Message(Serving), found.update)
    OBVIOUS
  <2>2. ~Elsewhere
    BY <2>1, ElsewhereSteps DEF IInv, Aside
  <2>3. ProcessTransaction
    BY <2>1, <2>2, StepKinds
    DEF Serve, Take, StartTransaction, NextPhase, DeleteRule, UpdateRule,
        CreateRule, Throw, Reply, Crash
  <2>4. pc = "process" /\ file' = rules
    BY <2>1, <2>3 DEF ProcessTransaction, Commit
  <2> QED
    BY <2>1, <2>4 DEF IInv, Applied, Finishing, Sent
<1>2. IInv /\ [Next]_vars => [Step]_vars
  BY <1>1
<1> QED
  BY <1>2, SaveInvariance, PTL DEF Spec, FileTakesWholeForms
=============================================================================
