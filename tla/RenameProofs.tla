---------------------------- MODULE RenameProofs ----------------------------
(***************************************************************************)
(* A rename that reports success, and had none of its requests refused,    *)
(* has moved the whole tree (RenameComplete): for one worker, any finite   *)
(* set of paths, any tree of any depth and any size of the ring.           *)
(*                                                                         *)
(* First the paths and the store, whose every state is a tree (Rooted).    *)
(* Then the walk of a rename through the directories below its old path,   *)
(* apart from how the program keeps it (Begun, Moves, Walk), and what the  *)
(* four kinds of change to the store do to it.  Then the walk as the       *)
(* frames and pc have it (Course): each request and each step of a handler *)
(* keeps it, or comes to its end (Arrived), as long as no path in use is   *)
(* printed over.  That none is needs an account of the ring: the buffers   *)
(* handed out since a directory was entered are no more than what the      *)
(* rename has met in it takes (RingInv), and all of the directory takes    *)
(* less than the ring has.                                                 *)
(***************************************************************************)
EXTENDS NamespaceProofs, FiniteSetTheorems, WellFoundedInduction

(* The assumptions on the constants are used everywhere.                   *)
USE NamespaceAssumption, RetryAssumption

-----------------------------------------------------------------------------
(* Paths, and what is below them.                                          *)

(* A set of numbers has a least one.                                       *)
LEMMA Least == ASSUME NEW T \in SUBSET Nat, T # {} PROVE \E x \in T : \A y \in T : x <= y
<1>1. PICK x \in T : \A y \in T : ~(<<y, x>> \in OpToRel(<, Nat))
    BY NatLessThanWellFounded, WFMin
<1>2. \A y \in T : ~(y < x) /\ x \in Nat /\ y \in Nat
    BY <1>1 DEF OpToRel
<1> QED  BY <1>2

(* A path is an entry of its directory, under one name.                    *)
LEMMA AppendFront ==
    ASSUME NEW p \in Seq(Name), NEW n \in Name
    PROVE  /\ Append(p, n) \in Seq(Name) /\ Append(p, n) # << >> /\ Front(Append(p, n)) = p
           /\ Len(Append(p, n)) = Len(p) + 1 /\ Len(p) \in Nat /\ Append(p, n) # p
           /\ Append(p, n)[Len(p) + 1] = n
<1> HIDE NamespaceAssumption, RetryAssumption
<1>1. /\ Append(p, n) \in Seq(Name) /\ Len(Append(p, n)) = Len(p) + 1 /\ Len(p) \in Nat
      /\ Append(p, n)[Len(p) + 1] = n
    OBVIOUS
<1>2. SubSeq(Append(p, n), 1, Len(p)) = p
    OBVIOUS
<1>3. Front(Append(p, n)) = p
    BY <1>1, <1>2 DEF Front
<1>4. Append(p, n) # << >> /\ Append(p, n) # p
    BY <1>1
<1> QED  BY <1>1, <1>3, <1>4

(* The names of the directory of a path are those of the path.             *)
LEMMA FrontItems ==
    ASSUME NEW p \in Seq(Name), p # << >>
    PROVE  /\ Front(p) \in Seq(Name) /\ Len(Front(p)) = Len(p) - 1
           /\ \A i \in 1..Len(p) - 1 : Front(p)[i] = p[i]
<1>1. Len(p) \in Nat /\ Len(p) > 0
    OBVIOUS
<1> QED  BY <1>1 DEF Front

(* And a path below another is one, of a path that is.                     *)
LEMMA FrontAppend ==
    ASSUME NEW p \in Seq(Name), p # << >>
    PROVE  /\ Front(p) \in Seq(Name) /\ p = Append(Front(p), p[Len(p)]) /\ p[Len(p)] \in Name
           /\ Len(p) \in Nat /\ Len(Front(p)) = Len(p) - 1 /\ Len(Front(p)) \in Nat
<1> HIDE NamespaceAssumption, RetryAssumption
<1>1. Len(p) \in Nat /\ Len(p) > 0 /\ p[Len(p)] \in Name
    OBVIOUS
<1>2. Front(p) \in Seq(Name) /\ Len(Front(p)) = Len(p) - 1
      /\ \A i \in 1..Len(p) - 1 : Front(p)[i] = p[i]
    BY <1>1, FrontItems
<1>3. Append(Front(p), p[Len(p)]) \in Seq(Name)
      /\ Len(Append(Front(p), p[Len(p)])) = Len(p)
      /\ \A i \in 1..Len(p) : Append(Front(p), p[Len(p)])[i] = p[i]
    BY <1>1, <1>2
<1>4. p = Append(Front(p), p[Len(p)])
    BY <1>3, SeqEqual
<1> QED  BY <1>1, <1>2, <1>4

(* What is below a path, and is not the path, is in a directory below it.  *)
LEMMA UnderStep ==
    ASSUME NEW s \in Seq(Name), NEW p \in Seq(Name), Under(s, p), p # s
    PROVE  p # << >> /\ Under(s, Front(p)) /\ Len(s) < Len(p)
<1> HIDE NamespaceAssumption, RetryAssumption
<1>1. Len(s) <= Len(p) /\ Len(s) \in Nat /\ Len(p) \in Nat
      /\ \A i \in 1..Len(s) : s[i] = p[i]
    BY UnderItems
<1>2. Len(s) # Len(p)
    BY <1>1, SeqEqual
<1>3. p # << >> /\ Len(s) < Len(p)
    BY <1>1, <1>2
<1>4. Front(p) \in Seq(Name) /\ Len(Front(p)) = Len(p) - 1
      /\ \A i \in 1..Len(p) - 1 : Front(p)[i] = p[i]
    BY <1>3, FrontItems
<1>5. Under(s, Front(p))
    BY <1>1, <1>3, <1>4, UnderItems
<1> QED  BY <1>3, <1>5

(* Different paths have different paths after the rename.                  *)
LEMMA MovedInjective ==
    ASSUME NEW s \in Seq(Name), NEW t \in Seq(Name),
           NEW p \in Seq(Name), NEW q \in Seq(Name), Under(s, p), Under(s, q),
           Moved(p, s, t) = Moved(q, s, t)
    PROVE  p = q
<1> HIDE NamespaceAssumption, RetryAssumption
<1>1. /\ Len(s) <= Len(p) /\ Len(s) \in Nat /\ Len(p) \in Nat
      /\ Len(s) <= Len(q) /\ Len(q) \in Nat /\ Len(t) \in Nat
      /\ \A i \in 1..Len(s) : s[i] = p[i] /\ s[i] = q[i]
    BY UnderItems
<1> DEFINE u == SubSeq(p, Len(s) + 1, Len(p))
           v == SubSeq(q, Len(s) + 1, Len(q))
<1>2. /\ u \in Seq(Name) /\ Len(u) = Len(p) - Len(s)
      /\ v \in Seq(Name) /\ Len(v) = Len(q) - Len(s)
    BY <1>1
<1>3. /\ \A i \in 1..Len(u) : u[i] = p[Len(s) + i]
      /\ \A i \in 1..Len(v) : v[i] = q[Len(s) + i]
    BY <1>1
<1>4. t \o u = t \o v
    BY DEF Moved
<1> HIDE DEF u, v
<1>5. Len(t \o u) = Len(t) + Len(u) /\ Len(t \o v) = Len(t) + Len(v)
    BY <1>2, ConcatProperties
<1>6. Len(u) = Len(v) /\ Len(p) = Len(q)
    BY <1>1, <1>2, <1>4, <1>5
<1>7. \A i \in 1..Len(u) : (t \o u)[Len(t) + i] = u[i] /\ (t \o v)[Len(t) + i] = v[i]
    BY <1>1, <1>2, <1>6, SMTT(30)
<1>8. \A i \in 1..Len(p) : p[i] = q[i]
    <2> SUFFICES ASSUME NEW i \in 1..Len(p) PROVE p[i] = q[i]
        OBVIOUS
    <2>1. CASE i <= Len(s)
        BY <1>1, <2>1
    <2>2. CASE i > Len(s)
        <3>1. i - Len(s) \in 1..Len(u) /\ Len(s) + (i - Len(s)) = i
            BY <1>1, <1>2, <2>2
        <3>2. u[i - Len(s)] = v[i - Len(s)]
            BY <1>4, <1>7, <3>1
        <3> QED  BY <1>3, <1>6, <3>1, <3>2
    <2> QED  BY <1>1, <2>1, <2>2
<1> QED  BY <1>6, <1>8, SeqEqual

(* Nothing is below both of two paths of which neither is below the other. *)
LEMMA UnderOne ==
    ASSUME NEW s \in Seq(Name), NEW t \in Seq(Name), ~Under(s, t), ~Under(t, s),
           NEW p \in Seq(Name), Under(s, p)
    PROVE  ~Under(t, p)
BY UnderChain

(* The names of a directory are those of the entries that are there.       *)
LEMMA NamesFacts ==
    ASSUME NEW r, NEW p \in Path, NEW n
    PROVE  n \in Names(r, p) <=>
             n \in Name /\ Append(p, n) \in Path /\ r[Append(p, n)] # "absent"
<1>0. p \in Seq(Name)
    OBVIOUS
<1>1. ASSUME n \in Names(r, p)
      PROVE  n \in Name /\ Append(p, n) \in Path /\ r[Append(p, n)] # "absent"
    <2>1. PICK q \in Path : /\ Len(q) = Len(p) + 1 /\ Under(p, q) /\ r[q] # "absent"
                            /\ n = q[Len(q)]
        BY <1>1 DEF Names
    <2>2. q \in Seq(Name) /\ p # q
        BY <2>1
    <2> HIDE NamespaceAssumption
    <2>3. Under(p, Front(q)) /\ q # << >>
        BY <1>0, <2>1, <2>2, UnderStep
    <2>4. Front(q) \in Seq(Name) /\ Len(Front(q)) = Len(p) /\ q = Append(Front(q), n)
          /\ n \in Name
        BY <1>0, <2>1, <2>2, <2>3, FrontAppend
    <2>5. Front(q) = p
        BY <1>0, <2>3, <2>4, UnderStep
    <2> QED  BY <2>1, <2>4, <2>5
<1>2. ASSUME n \in Name, Append(p, n) \in Path, r[Append(p, n)] # "absent"
      PROVE  n \in Names(r, p)
    <2>1. /\ Len(Append(p, n)) = Len(p) + 1 /\ Append(p, n)[Len(Append(p, n))] = n
          /\ Under(p, Append(p, n))
        BY <1>0, <1>2, AppendFront, UnderRefl, UnderAppend
    <2> QED  BY <1>2, <2>1 DEF Names
<1> QED  BY <1>1, <1>2

(* What a rename moves has a path.                                         *)
LEMMA MovedPath ==
    ASSUME NEW c \in Calls, c.op = "rename", NEW p \in Path, Under(c.path, p)
    PROVE  Moved(p, c.path, c.to) \in Path
OBVIOUS

-----------------------------------------------------------------------------
(* The store is a tree: what is there is in a directory.                   *)
Rooted(r) ==
    /\ r[<< >>] = "dir"
    /\ \A p \in Path \ {<< >>} : r[p] # "absent" => r[Front(p)] = "dir"

(* So there is nothing below a path that is no directory, or is empty.     *)
LEMMA RootedBelow ==
    ASSUME NEW r, Rooted(r), NEW p \in Path, r[p] # "dir" \/ Names(r, p) = {},
           NEW q \in Path, Under(p, q), q # p
    PROVE  r[q] = "absent"
<1> DEFINE Q == {x \in Path : Under(p, x) /\ x # p /\ r[x] # "absent"}
           T == {Len(x) : x \in Q}
<1>1. p \in Seq(Name) /\ \A x \in Path : x \in Seq(Name) /\ Len(x) \in Nat
    OBVIOUS
<1> SUFFICES ASSUME Q # {} PROVE FALSE
    OBVIOUS
<1>2. T \in SUBSET Nat
    BY <1>1
<1>3. PICK x \in Q : \A y \in Q : Len(x) <= Len(y)
    <2>1. PICK n \in T : \A m \in T : n <= m
        <3>0. PICK z \in Q : TRUE
            OBVIOUS
        <3>1. Len(z) \in T
            OBVIOUS
        <3> HIDE DEF T
        <3> QED  BY <1>2, <3>1, Least
    <2>2. PICK x \in Q : n = Len(x)
        OBVIOUS
    <2>3. \A y \in Q : Len(y) \in T
        OBVIOUS
    <2> HIDE DEF T, Q
    <2> QED  BY <2>1, <2>2, <2>3
<1>4. x \in Seq(Name) /\ x # << >> /\ Under(p, Front(x)) /\ Front(x) \in Path
    BY <1>1, <1>3, UnderStep
<1>5. r[Front(x)] = "dir"
    BY <1>3, <1>4 DEF Rooted
<1>6. Len(Front(x)) = Len(x) - 1 /\ Len(x) \in Nat /\ Len(Front(x)) \in Nat
      /\ x = Append(Front(x), x[Len(x)]) /\ x[Len(x)] \in Name
    BY <1>4, FrontAppend
<1>7. Front(x) \notin Q
    BY <1>3, <1>6
<1>8. Front(x) = p
    BY <1>4, <1>5, <1>7
<1>9. x[Len(x)] \in Names(r, p)
    BY <1>3, <1>6, <1>8, NamesFacts
<1> QED  BY <1>5, <1>8, <1>9

-----------------------------------------------------------------------------
(* What a rename has done to the store, and what it is at, apart from how  *)
(* the program keeps it.                                                   *)
New(p, c) == Moved(p, c.path, c.to)

(* The rename of call c begins with the store was.                         *)
Begun(was, c) ==
    /\ c \in Calls /\ c.op = "rename" /\ c.to # << >>
    /\ ~Under(c.path, c.to) /\ ~Under(c.to, c.path)
    /\ was[c.path] # "absent" /\ was[Front(c.to)] = "dir"
    /\ was[c.to] # "absent" => (was[c.path] = "dir" <=> was[c.to] = "dir")
    /\ Rooted(was) /\ Names(was, c.to) = {}

(* Each path below the old one is there, or it is at its new path; what is *)
(* at the new paths was there or is a copy.                                *)
Moves(r, was, c) ==
    \A p \in Path :
        /\ ~Under(c.path, p) /\ ~Under(c.to, p) => r[p] = was[p]
        /\ Under(c.path, p) =>
            /\ r[p] = was[p] \/ (r[p] = "absent" /\ r[New(p, c)] = was[p])
            /\ r[New(p, c)] \in {was[New(p, c)], was[p]}

(* The rename is in the directories dirs[2], .., dirs[n], each in the one  *)
(* before it, and the entries todo[i] of dirs[i] are still to come.  In    *)
(* the last one it is at e, or between two entries.                        *)
Current(dirs, n, e, i) == IF i < n THEN dirs[i + 1] ELSE e
Entering(r, dirs, todo, x, i) ==
    /\ todo[i] \subseteq Name
    /\ \A m \in Name :
        LET y == Append(dirs[i], m) IN
        /\ m \in todo[i] => y \in Path /\ r[y] # "absent" /\ y # x
        /\ y \in Path /\ r[y] # "absent" => m \in todo[i] \/ y = x
Within(r, c, dirs, i) ==
    /\ dirs[i] \in Path /\ Under(c.path, dirs[i])
    /\ Len(dirs[i]) = Len(c.path) + i - 2
    /\ r[dirs[i]] = "dir" /\ r[New(dirs[i], c)] = "dir"
Walk(r, c, dirs, todo, n, e) ==
    /\ n \in Nat \ {0}
    /\ e # NULL => e \in Path /\ Under(c.path, e)
    /\ n = 1 => e = c.path
    /\ \A i \in 2..n :
        /\ Within(r, c, dirs, i)
        /\ Current(dirs, n, e, i) # NULL =>
              \E m \in Name : Current(dirs, n, e, i) = Append(dirs[i], m)
        /\ Entering(r, dirs, todo, Current(dirs, n, e, i), i)

(* What is used of a call that renames.                                    *)
LEMMA CallFacts ==
    ASSUME NEW c \in Calls, c.op = "rename"
    PROVE  /\ c.path \in Path /\ c.to \in Path /\ c.path \in Seq(Name) /\ c.to \in Seq(Name)
           /\ Len(c.path) \in Nat /\ New(c.path, c) = c.to
           /\ Under(c.path, c.path) /\ Under(c.to, c.to)
           /\ \A p \in Path : p \in Seq(Name) /\ p # NULL /\ Len(p) \in Nat
           /\ \A p \in Path : Under(c.path, p) =>
                New(p, c) \in Path /\ New(p, c) \in Seq(Name) /\ Under(c.to, New(p, c))
           /\ \A p, q \in Path :
                Under(c.path, p) /\ Under(c.path, q) /\ New(p, c) = New(q, c) => p = q
           /\ \A p \in Path : \A n \in Name : Under(c.path, p) =>
                New(Append(p, n), c) = Append(New(p, c), n)
<1>1. c.path \in Path /\ c.to \in Path /\ \A p \in Path : p \in Seq(Name) /\ p # NULL
    OBVIOUS
<1>2. \A p \in Path : Len(p) \in Nat
    BY <1>1
<1>3. \A p \in Path : Under(c.path, p) =>
                New(p, c) \in Path /\ New(p, c) \in Seq(Name) /\ Under(c.to, New(p, c))
    BY <1>1, MovedPath, MovedFacts DEF New
<1>4. New(c.path, c) = c.to /\ Under(c.path, c.path) /\ Under(c.to, c.to)
    BY <1>1, MovedSelf, UnderRefl DEF New
<1>5. \A p, q \in Path :
         Under(c.path, p) /\ Under(c.path, q) /\ New(p, c) = New(q, c) => p = q
    BY <1>1, MovedInjective DEF New
<1>6. \A p \in Path : \A n \in Name : Under(c.path, p) =>
         New(Append(p, n), c) = Append(New(p, c), n)
    <2> SUFFICES ASSUME NEW p \in Path, NEW n \in Name, Under(c.path, p)
                 PROVE  Moved(Append(p, n), c.path, c.to) = Append(Moved(p, c.path, c.to), n)
        BY DEF New
    <2>1. c.path \in Seq(Name) /\ c.to \in Seq(Name) /\ p \in Seq(Name)
        BY <1>1
    <2> HIDE NamespaceAssumption, RetryAssumption
    <2> QED  BY <2>1, MovedAppend
<1> QED  BY <1>1, <1>2, <1>3, <1>4, <1>5, <1>6

(* No path is both below the old path and below the new one.               *)
LEMMA Separate ==
    ASSUME NEW was, NEW c, Begun(was, c), NEW p \in Path, Under(c.path, p)
    PROVE  ~Under(c.to, p) /\ \A q \in Path : Under(c.path, q) => New(q, c) # p
<1>1. /\ c \in Calls /\ c.op = "rename" /\ ~Under(c.path, c.to) /\ ~Under(c.to, c.path)
      /\ c.path \in Seq(Name) /\ c.to \in Seq(Name) /\ p \in Seq(Name)
    BY CallFacts DEF Begun
<1>2. ~Under(c.to, p)
    BY <1>1, UnderOne
<1> QED  BY <1>1, <1>2, CallFacts

(* The places of two entries that are different.                           *)
LEMMA AppendSame ==
    ASSUME NEW p \in Path, NEW q \in Path, NEW m \in Name, NEW n \in Name,
           Append(p, m) = Append(q, n)
    PROVE  p = q /\ m = n
<1>1. p \in Seq(Name) /\ q \in Seq(Name)
    OBVIOUS
<1> HIDE NamespaceAssumption, RetryAssumption
<1> QED  BY <1>1, AppendFront

(* The old path is where a rename begins.                                  *)
LEMMA WalkStart ==
    ASSUME NEW r, NEW c \in Calls, c.op = "rename", NEW dirs, NEW todo
    PROVE  Walk(r, c, dirs, todo, 1, c.path)
BY CallFacts DEF Walk

(* A walk is that of any frames that have these directories and entries.   *)
LEMMA WalkSame ==
    ASSUME NEW r, NEW c, NEW dirs, NEW todo, NEW n, NEW e, Walk(r, c, dirs, todo, n, e),
           NEW dirs2, NEW todo2,
           \A i \in 2..n : dirs2[i] = dirs[i] /\ todo2[i] = todo[i]
    PROVE  Walk(r, c, dirs2, todo2, n, e)
<1>1. /\ n \in Nat \ {0} /\ (e # NULL => e \in Path /\ Under(c.path, e)) /\ (n = 1 => e = c.path)
    BY DEF Walk
<1>2. ASSUME NEW i \in 2..n
      PROVE  /\ Within(r, c, dirs2, i)
             /\ Current(dirs2, n, e, i) # NULL =>
                  \E m \in Name : Current(dirs2, n, e, i) = Append(dirs2[i], m)
             /\ Entering(r, dirs2, todo2, Current(dirs2, n, e, i), i)
    <2>1. Current(dirs2, n, e, i) = Current(dirs, n, e, i)
        BY <1>1 DEF Current
    <2>2. Within(r, c, dirs, i) /\ Entering(r, dirs, todo, Current(dirs, n, e, i), i)
          /\ (Current(dirs, n, e, i) # NULL =>
                  \E m \in Name : Current(dirs, n, e, i) = Append(dirs[i], m))
        BY DEF Walk
    <2>3. dirs2[i] = dirs[i] /\ todo2[i] = todo[i]
        OBVIOUS
    <2>4. Within(r, c, dirs2, i)
        BY <2>2, <2>3 DEF Within
    <2>5. Entering(r, dirs2, todo2, Current(dirs, n, e, i), i)
        BY <2>2, <2>3 DEF Entering
    <2> QED  BY <2>1, <2>2, <2>3, <2>4, <2>5
<1> QED  BY <1>1, <1>2 DEF Walk

(* The next entry is taken.                                                *)
Taken(todo, todo2, n, m) ==
    \A i \in 2..n : todo2[i] = IF i = n THEN todo[n] \ {m} ELSE todo[i]

(* The rename goes on with one of the entries still to come.               *)
LEMMA WalkNext ==
    ASSUME NEW r, NEW c, NEW dirs, NEW todo, NEW n, Walk(r, c, dirs, todo, n, NULL), n > 1,
           c \in Calls, c.op = "rename",
           NEW m \in todo[n], NEW todo2, Taken(todo, todo2, n, m)
    PROVE  /\ m \in Name /\ r[Append(dirs[n], m)] # "absent"
           /\ Walk(r, c, dirs, todo2, n, Append(dirs[n], m))
<1> USE DEF Taken
<1> DEFINE y == Append(dirs[n], m)
<1>1. n \in Nat /\ n \in 2..n /\ n # 1
    BY DEF Walk
<1>2. Within(r, c, dirs, n) /\ Entering(r, dirs, todo, NULL, n)
    BY <1>1 DEF Walk, Current
<1>3. /\ m \in Name /\ todo2[n] \subseteq Name
      /\ dirs[n] \in Path /\ Under(c.path, dirs[n]) /\ y \in Path /\ r[y] # "absent"
    BY <1>1, <1>2 DEF Within, Entering
<1>4. Under(c.path, y)
    BY <1>3, CallFacts, UnderAppend
<1>5. ASSUME NEW i \in 2..n
      PROVE  /\ Within(r, c, dirs, i)
             /\ Current(dirs, n, y, i) # NULL =>
                  \E k \in Name : Current(dirs, n, y, i) = Append(dirs[i], k)
             /\ Entering(r, dirs, todo2, Current(dirs, n, y, i), i)
    <2>1. CASE i = n
        <3>1. Current(dirs, n, y, i) = y /\ todo2[i] = todo[n] \ {m}
            BY <2>1, <1>1 DEF Current
        <3>2. ASSUME NEW k \in Name
              PROVE  LET z == Append(dirs[n], k) IN
                     /\ k \in todo2[n] => z \in Path /\ r[z] # "absent" /\ z # y
                     /\ z \in Path /\ r[z] # "absent" => k \in todo2[n] \/ z = y
            <4>1. /\ k \in todo[n] => Append(dirs[n], k) \in Path /\ r[Append(dirs[n], k)] # "absent"
                  /\ Append(dirs[n], k) \in Path /\ r[Append(dirs[n], k)] # "absent" => 
                       k \in todo[n] \/ Append(dirs[n], k) = NULL
                BY <1>2 DEF Entering
            <4>2. Append(dirs[n], k) \in Path => Append(dirs[n], k) # NULL
                BY <1>3, CallFacts
            <4>3. Append(dirs[n], k) = y => k = m
                BY <1>3, AppendSame
            <4> QED  BY <2>1, <3>1, <4>1, <4>2, <4>3
        <3> QED  BY <2>1, <3>1, <3>2, <1>1, <1>2, <1>3 DEF Entering
    <2>2. CASE i # n
        <3>1. Current(dirs, n, y, i) = Current(dirs, n, NULL, i) /\ todo2[i] = todo[i]
            BY <2>2, <1>1 DEF Current
        <3> QED  BY <3>1 DEF Walk, Entering
    <2> QED  BY <2>1, <2>2
<1> QED  BY <1>1, <1>3, <1>4, <1>5 DEF Walk

(* The walk goes down into a directory whose new directory is there.       *)
LEMMA WalkDown ==
    ASSUME NEW r, NEW c, NEW dirs, NEW todo, NEW n, NEW e, Walk(r, c, dirs, todo, n, e),
           c \in Calls, c.op = "rename",
           e # NULL, r[e] = "dir", r[New(e, c)] = "dir",
           NEW dirs2, NEW todo2,
           \A i \in 2..n : dirs2[i] = dirs[i] /\ todo2[i] = todo[i],
           dirs2[n + 1] = e, todo2[n + 1] = Names(r, e)
    PROVE  Walk(r, c, dirs2, todo2, n + 1, NULL)
<1>1. n \in Nat /\ n > 0 /\ e \in Path /\ Under(c.path, e) /\ (n = 1 => e = c.path)
    BY DEF Walk
<1>2. Len(e) = Len(c.path) + n - 1
    <2>1. CASE n = 1
        BY <1>1, <2>1, CallFacts
    <2>2. CASE n # 1
        <3>1. n \in 2..n
            BY <1>1, <2>2
        <3>2. Current(dirs, n, e, n) = e
            BY <1>1 DEF Current
        <3>3. Within(r, c, dirs, n) /\ \E m \in Name : e = Append(dirs[n], m)
            BY <3>1, <3>2, SMTT(30) DEF Walk
        <3>4. dirs[n] \in Seq(Name) /\ Len(dirs[n]) = Len(c.path) + n - 2
            BY <3>3, CallFacts DEF Within
        <3>5. Len(e) = Len(dirs[n]) + 1
            BY <3>3, <3>4, AppendFront
        <3> QED  BY <1>1, <3>4, <3>5, CallFacts
    <2> QED  BY <2>1, <2>2
<1>3. ASSUME NEW i \in 2..n + 1
      PROVE  /\ Within(r, c, dirs2, i)
             /\ Current(dirs2, n + 1, NULL, i) # NULL =>
                  \E k \in Name : Current(dirs2, n + 1, NULL, i) = Append(dirs2[i], k)
             /\ Entering(r, dirs2, todo2, Current(dirs2, n + 1, NULL, i), i)
    <2>1. CASE i = n + 1
        <3>1. Current(dirs2, n + 1, NULL, i) = NULL
            BY <1>1, <2>1 DEF Current
        <3>2. Within(r, c, dirs2, i)
            BY <1>1, <1>2, <2>1, CallFacts, SMTT(30) DEF Within
        <3>3. \A m \in Name : m \in Names(r, e) <=> Append(e, m) \in Path /\ r[Append(e, m)] # "absent"
            BY <1>1, NamesFacts
        <3>6. Names(r, e) \subseteq Name
            BY <1>1, NamesFacts
        <3>4. \A m \in Name : Append(e, m) \in Path => Append(e, m) # NULL
            BY CallFacts
        <3>5. Entering(r, dirs2, todo2, NULL, i)
            BY <2>1, <3>3, <3>4, <3>6, SMTT(30) DEF Entering
        <3> QED  BY <3>1, <3>2, <3>5
    <2>2. CASE i # n + 1
        <3>0. i \in 2..n /\ dirs2[i] = dirs[i] /\ todo2[i] = todo[i]
            BY <1>1, <2>2
        <3>1. Current(dirs2, n + 1, NULL, i) = Current(dirs, n, e, i)
            <4>1. i < n => i + 1 \in 2..n
                BY <1>1, <3>0
            <4>2. i < n + 1 /\ (~(i < n) => i + 1 = n + 1)
                BY <1>1, <3>0
            <4> QED  BY <4>1, <4>2 DEF Current
        <3>2. Within(r, c, dirs, i) /\ Entering(r, dirs, todo, Current(dirs, n, e, i), i)
              /\ (Current(dirs, n, e, i) # NULL =>
                  \E m \in Name : Current(dirs, n, e, i) = Append(dirs[i], m))
            BY <3>0 DEF Walk
        <3>3. Within(r, c, dirs2, i)
            BY <3>0, <3>2 DEF Within
        <3>4. Entering(r, dirs2, todo2, Current(dirs, n, e, i), i)
            BY <3>0, <3>2 DEF Entering
        <3> QED  BY <3>0, <3>1, <3>2, <3>3, <3>4
    <2> QED  BY <2>1, <2>2
<1> QED  BY <1>1, <1>3 DEF Walk

(* What is at the old place of an entry, or a directory, may go once it is *)
(* no longer needed there.                                                 *)
LEMMA WithinGone ==
    ASSUME NEW r \in [Path -> Kinds], NEW was, NEW c, Begun(was, c), NEW dirs, NEW i,
           Within(r, c, dirs, i), NEW e \in Path, Under(c.path, e), e # dirs[i]
    PROVE  Within([r EXCEPT ![e] = "absent"], c, dirs, i)
<1>1. /\ dirs[i] \in Path /\ Under(c.path, dirs[i]) /\ c \in Calls /\ c.op = "rename"
    BY DEF Within, Begun
<1>2. New(dirs[i], c) \in Path /\ New(dirs[i], c) # e
    BY <1>1, CallFacts, Separate
<1> QED  BY <1>1, <1>2 DEF Within

(* The removal of another path leaves the entries of a directory alone.    *)
LEMMA EnteringGone ==
    ASSUME NEW r \in [Path -> Kinds], NEW dirs, NEW todo, NEW i, NEW x,
           Entering(r, dirs, todo, x, i), NEW e \in Path,
           \A m \in todo[i] : Append(dirs[i], m) # e
    PROVE  Entering([r EXCEPT ![e] = "absent"], dirs, todo, x, i)
BY DEF Entering

(* The last entry was the last: the directory is empty, and is removed.    *)
LEMMA WalkUp ==
    ASSUME NEW r \in [Path -> Kinds], NEW was, NEW c, Begun(was, c),
           NEW dirs, NEW todo, NEW n, Walk(r, c, dirs, todo, n, NULL), n > 1, todo[n] = {}
    PROVE  /\ dirs[n] \in Path /\ r[dirs[n]] = "dir" /\ Names(r, dirs[n]) = {}
           /\ Walk([r EXCEPT ![dirs[n]] = "absent"], c, dirs, todo, n - 1, dirs[n])
<1> DEFINE d == dirs[n]
           r2 == [r EXCEPT ![d] = "absent"]
<1>0. c \in Calls /\ c.op = "rename" /\ n \in Nat /\ n # 1 /\ n \in 2..n
    BY DEF Begun, Walk
<1>1. Within(r, c, dirs, n) /\ Entering(r, dirs, todo, NULL, n)
    BY <1>0 DEF Walk, Current
<1>2. d \in Path /\ Under(c.path, d) /\ r[d] = "dir" /\ Len(d) = Len(c.path) + n - 2
    BY <1>1 DEF Within
<1>3. Names(r, d) = {}
    <2>1. \A m \in Name : Append(d, m) \in Path => Append(d, m) # NULL
        BY <1>0, CallFacts
    <2>2. \A m : m \in Names(r, d) => m \in Name /\ Append(d, m) \in Path /\ r[Append(d, m)] # "absent"
        BY <1>2, NamesFacts
    <2> QED  BY <1>1, <2>1, <2>2 DEF Entering
<1>4. n - 1 \in Nat \ {0} /\ d # NULL
    BY <1>0, <1>2, CallFacts
<1>5. n - 1 = 1 => d = c.path
    <2> SUFFICES ASSUME n = 2 PROVE d = c.path
        BY <1>0
    <2>1. c.path \in Seq(Name) /\ d \in Seq(Name) /\ Len(d) = Len(c.path)
        BY <1>0, <1>2, CallFacts
    <2> HIDE NamespaceAssumption, RetryAssumption
    <2> QED  BY <1>2, <2>1, UnderStep
<1>6. ASSUME NEW i \in 2..n - 1
      PROVE  /\ Within(r2, c, dirs, i)
             /\ \E k \in Name : Current(dirs, n - 1, d, i) = Append(dirs[i], k)
             /\ Entering(r2, dirs, todo, Current(dirs, n - 1, d, i), i)
    <2>1. i \in 2..n /\ i < n /\ (~(i < n - 1) => i + 1 = n) /\ i + 1 \in 2..n
        BY <1>0
    <2>2. Current(dirs, n - 1, d, i) = Current(dirs, n, NULL, i)
          /\ Current(dirs, n, NULL, i) = dirs[i + 1]
        BY <2>1 DEF Current
    <2>3. Within(r, c, dirs, i) /\ Entering(r, dirs, todo, dirs[i + 1], i)
          /\ (dirs[i + 1] # NULL => \E k \in Name : dirs[i + 1] = Append(dirs[i], k))
        BY <2>1, <2>2 DEF Walk
    <2>4. Within(r, c, dirs, i + 1)
        BY <2>1 DEF Walk
    <2>5. dirs[i] \in Seq(Name) /\ dirs[i] \in Path /\ dirs[i + 1] \in Path /\ dirs[i + 1] # NULL
          /\ Len(dirs[i]) = Len(c.path) + i - 2 /\ Len(dirs[i + 1]) = Len(c.path) + (i + 1) - 2
        BY <1>0, <2>3, <2>4, CallFacts DEF Within
    <2>6. Len(c.path) \in Nat /\ i \in Nat
        BY <1>0, CallFacts
    <2>7. d # dirs[i]
        <3>1. Len(c.path) + n - 2 # Len(c.path) + i - 2
            BY <1>0, <2>1, <2>6
        <3> QED  BY <1>2, <2>5, <3>1
    <2>8. Within(r2, c, dirs, i)
        BY <1>2, <2>3, <2>7, WithinGone
    <2>9. \A m \in todo[i] : Append(dirs[i], m) # d
        <3> SUFFICES ASSUME NEW m \in todo[i], Append(dirs[i], m) = d PROVE FALSE
            OBVIOUS
        <3>1. m \in Name /\ Append(dirs[i], m) # dirs[i + 1]
            BY <2>3 DEF Entering
        <3>2. Len(d) = Len(dirs[i]) + 1
            <4>1. dirs[i] \in Seq(Name) /\ m \in Name /\ d = Append(dirs[i], m)
                BY <2>5, <3>1
            <4> HIDE NamespaceAssumption, RetryAssumption DEF d
            <4> QED  BY <4>1, AppendFront
        <3>3. Len(c.path) + n - 2 = (Len(c.path) + i - 2) + 1
            BY <1>2, <2>5, <3>2
        <3>4. i + 1 = n
            BY <1>0, <2>6, <3>3
        <3> QED  BY <3>1, <3>4
    <2>10. Entering(r2, dirs, todo, dirs[i + 1], i)
        BY <1>2, <2>3, <2>9, EnteringGone
    <2> QED  BY <2>2, <2>3, <2>5, <2>8, <2>10
<1>7. Walk(r2, c, dirs, todo, n - 1, d)
    BY <1>2, <1>4, <1>5, <1>6 DEF Walk
<1> QED  BY <1>2, <1>3, <1>7

(* A file is removed at its old place.                                     *)
LEMMA WalkGone ==
    ASSUME NEW r \in [Path -> Kinds], NEW was, NEW c, Begun(was, c),
           NEW dirs, NEW todo, NEW n, NEW e, Walk(r, c, dirs, todo, n, e),
           e # NULL, r[e] # "dir"
    PROVE  Walk([r EXCEPT ![e] = "absent"], c, dirs, todo, n, e)
<1> DEFINE r2 == [r EXCEPT ![e] = "absent"]
<1>1. c \in Calls /\ c.op = "rename" /\ n \in Nat \ {0} /\ e \in Path /\ Under(c.path, e)
      /\ (n = 1 => e = c.path)
    BY DEF Begun, Walk
<1>2. ASSUME NEW i \in 2..n
      PROVE  Within(r2, c, dirs, i) /\ Entering(r2, dirs, todo, Current(dirs, n, e, i), i)
    <2>1. Within(r, c, dirs, i) /\ Entering(r, dirs, todo, Current(dirs, n, e, i), i)
        BY DEF Walk
    <2>2. e # dirs[i] /\ dirs[i] \in Path
        BY <2>1 DEF Within
    <2>3. \A m \in todo[i] : Append(dirs[i], m) # e
        <3> SUFFICES ASSUME NEW m \in todo[i], Append(dirs[i], m) = e PROVE FALSE
            OBVIOUS
        <3>1. m \in Name /\ Current(dirs, n, e, i) # e
            BY <2>1 DEF Entering
        <3>2. i < n /\ i + 1 \in 2..n /\ Current(dirs, n, e, i) = dirs[i + 1] /\ i \in Nat
            BY <1>1, <3>1 DEF Current
        <3>3. Within(r, c, dirs, i + 1)
            BY <3>2 DEF Walk
        <3>4. n \in 2..n /\ Current(dirs, n, e, n) = e
            BY <1>1, <3>2 DEF Current
        <3>5. \E k \in Name : e = Append(dirs[n], k)
            <4>1. Current(dirs, n, e, n) # NULL =>
                     \E k \in Name : Current(dirs, n, e, n) = Append(dirs[n], k)
                BY <3>4 DEF Walk
            <4> QED  BY <3>4, <4>1
        <3>6. Within(r, c, dirs, n)
            BY <3>4 DEF Walk
        <3>7. dirs[i] = dirs[n]
            <4>1. PICK k \in Name : e = Append(dirs[n], k)
                BY <3>5
            <4>2. dirs[n] \in Path
                BY <3>6 DEF Within
            <4>3. Append(dirs[i], m) = Append(dirs[n], k)
                BY <4>1
            <4> HIDE NamespaceAssumption
            <4> QED  BY <2>2, <3>1, <4>2, <4>3, AppendSame
        <3>8. Len(c.path) \in Nat /\ Len(c.path) + i - 2 = Len(c.path) + n - 2
            BY <1>1, <2>1, <3>6, <3>7, CallFacts DEF Within
        <3> QED  BY <1>1, <3>2, <3>8
    <2> QED  BY <1>1, <2>1, <2>2, <2>3, WithinGone, EnteringGone
<1>3. \A i \in 2..n : Current(dirs, n, e, i) # NULL =>
              \E m \in Name : Current(dirs, n, e, i) = Append(dirs[i], m)
    BY DEF Walk
<1> QED  BY <1>1, <1>2, <1>3 DEF Walk

(* What was at the old place is gone: the walk is between two entries.     *)
LEMMA WalkDrop ==
    ASSUME NEW r, NEW c, c \in Calls, c.op = "rename",
           NEW dirs, NEW todo, NEW n, NEW e, Walk(r, c, dirs, todo, n, e),
           r[e] = "absent", n > 1
    PROVE  Walk(r, c, dirs, todo, n, NULL)
<1>1. n \in Nat \ {0} /\ n # 1
    BY DEF Walk
<1>2. ASSUME NEW i \in 2..n
      PROVE  /\ Within(r, c, dirs, i)
             /\ Current(dirs, n, NULL, i) # NULL =>
                  \E m \in Name : Current(dirs, n, NULL, i) = Append(dirs[i], m)
             /\ Entering(r, dirs, todo, Current(dirs, n, NULL, i), i)
    <2>1. Within(r, c, dirs, i) /\ Entering(r, dirs, todo, Current(dirs, n, e, i), i)
          /\ (Current(dirs, n, e, i) # NULL =>
                  \E m \in Name : Current(dirs, n, e, i) = Append(dirs[i], m))
        BY DEF Walk
    <2>2. CASE i < n
        BY <2>1, <2>2 DEF Current
    <2>3. CASE i = n
        <3>1. Current(dirs, n, e, i) = e /\ Current(dirs, n, NULL, i) = NULL
            BY <1>1, <2>3 DEF Current
        <3>2. \A m \in Name : Append(dirs[i], m) \in Path => Append(dirs[i], m) # NULL
            BY CallFacts
        <3>3. Entering(r, dirs, todo, NULL, i)
            BY <2>1, <3>1, <3>2 DEF Entering
        <3> QED  BY <2>1, <3>1, <3>3
    <2> QED  BY <1>1, <2>2, <2>3
<1> QED  BY <1>1, <1>2 DEF Walk

(* What the walk is at gets its copy, or a directory its new directory.    *)
LEMMA WalkPut ==
    ASSUME NEW r \in [Path -> Kinds], NEW was, NEW c, Begun(was, c),
           NEW dirs, NEW todo, NEW n, NEW e, Walk(r, c, dirs, todo, n, e),
           e # NULL, r[e] # "absent"
    PROVE  Walk([r EXCEPT ![New(e, c)] = r[e]], c, dirs, todo, n, e)
<1> DEFINE q == New(e, c)
           r2 == [r EXCEPT ![q] = r[e]]
<1>1. c \in Calls /\ c.op = "rename" /\ n \in Nat \ {0} /\ e \in Path /\ Under(c.path, e)
      /\ (n = 1 => e = c.path)
    BY DEF Begun, Walk
<1>2. q \in Path /\ \A p \in Path : Under(c.path, p) => p # q
    BY <1>1, CallFacts, Separate
<1>3. \A p \in Path \ {q} : r2[p] = r[p]
    OBVIOUS
<1>4. ASSUME NEW i \in 2..n
      PROVE  Within(r2, c, dirs, i) /\ Entering(r2, dirs, todo, Current(dirs, n, e, i), i)
    <2>1. Within(r, c, dirs, i) /\ Entering(r, dirs, todo, Current(dirs, n, e, i), i)
        BY DEF Walk
    <2>2. dirs[i] \in Path /\ Under(c.path, dirs[i]) /\ r[dirs[i]] = "dir"
          /\ r[New(dirs[i], c)] = "dir" /\ New(dirs[i], c) \in Path
        BY <1>1, <2>1, CallFacts DEF Within
    <2>3. r2[dirs[i]] = "dir"
        BY <1>2, <2>2
    <2>4. r2[New(dirs[i], c)] = "dir"
        <3>1. CASE New(dirs[i], c) = q
            BY <1>1, <1>2, <2>2, <3>1, CallFacts
        <3>2. CASE New(dirs[i], c) # q
            BY <2>2, <3>2
        <3> QED  BY <3>1, <3>2
    <2>5. \A m \in Name : Append(dirs[i], m) \in Path => r2[Append(dirs[i], m)] = r[Append(dirs[i], m)]
        <3>1. \A m \in Name : Append(dirs[i], m) \in Path => Under(c.path, Append(dirs[i], m))
            BY <1>1, <2>2, CallFacts, UnderAppend
        <3> QED  BY <1>2, <3>1
    <2>6. Within(r2, c, dirs, i)
        BY <2>1, <2>3, <2>4 DEF Within
    <2>7. Entering(r2, dirs, todo, Current(dirs, n, e, i), i)
        BY <2>1, <2>5 DEF Entering
    <2> QED  BY <2>6, <2>7
<1>5. \A i \in 2..n : Current(dirs, n, e, i) # NULL =>
              \E m \in Name : Current(dirs, n, e, i) = Append(dirs[i], m)
    BY DEF Walk
<1> QED  BY <1>1, <1>4, <1>5 DEF Walk

-----------------------------------------------------------------------------
(* What is at the old paths and at the new ones.                           *)
LEMMA MovesStart == ASSUME NEW was, NEW c PROVE Moves(was, was, c)
BY DEF Moves

(* Nothing is in the way: at a new path there is nothing yet, or what is   *)
(* there is of the same kind; and the new path has a directory.            *)
LEMMA NothingInTheWay ==
    ASSUME NEW r, NEW was, NEW c, Begun(was, c), Moves(r, was, c),
           NEW e \in Path, Under(c.path, e), r[e] # "absent"
    PROVE  /\ r[e] = was[e]
           /\ r[New(e, c)] # "absent" => (r[New(e, c)] = "dir" <=> r[e] = "dir")
<1>1. /\ c \in Calls /\ c.op = "rename"
      /\ was[c.to] # "absent" => (was[c.path] = "dir" <=> was[c.to] = "dir")
      /\ Rooted(was) /\ Names(was, c.to) = {}
    BY DEF Begun
<1>2. r[e] = was[e] /\ r[New(e, c)] \in {was[New(e, c)], was[e]}
    BY DEF Moves
<1>3. e # c.path => was[New(e, c)] = "absent"
    <2> SUFFICES ASSUME e # c.path PROVE was[New(e, c)] = "absent"
        OBVIOUS
    <2>1. c.to \in Path /\ New(e, c) \in Path /\ Under(c.to, New(e, c)) /\ New(e, c) # c.to
        BY <1>1, CallFacts
    <2> QED  BY <1>1, <2>1, RootedBelow
<1>4. e = c.path => New(e, c) = c.to
    BY <1>1, CallFacts
<1> QED  BY <1>1, <1>2, <1>3, <1>4

(* The directory of the new path of what the walk is at is there.          *)
LEMMA NewParent ==
    ASSUME NEW r, NEW was, NEW c, Begun(was, c), Moves(r, was, c),
           NEW dirs, NEW todo, NEW n, NEW e, Walk(r, c, dirs, todo, n, e), e # NULL
    PROVE  /\ e \in Path /\ Under(c.path, e)
           /\ New(e, c) \in Path /\ New(e, c) # << >> /\ Front(New(e, c)) \in Path
           /\ r[Front(New(e, c))] = "dir"
<1>1. /\ c \in Calls /\ c.op = "rename" /\ e \in Path /\ Under(c.path, e)
      /\ n \in Nat \ {0} /\ (n = 1 => e = c.path)
    BY DEF Begun, Walk
<1>2. New(e, c) \in Path
    BY <1>1, CallFacts
<1>3. CASE n = 1
    <2>1. New(e, c) = c.to /\ c.to # << >> /\ was[Front(c.to)] = "dir"
        BY <1>1, <1>3, CallFacts DEF Begun
    <2>2. c.to \in Seq(Name) /\ c.path \in Seq(Name) /\ c.to \in Path /\ Front(c.to) \in Path
        BY <1>1, <2>1, CallFacts
    <2>3. ~Under(c.path, Front(c.to)) /\ ~Under(c.to, Front(c.to))
        <3>1. Front(c.to) \in Seq(Name) /\ Under(Front(c.to), c.to) /\ Front(c.to) # c.to
            BY <2>1, <2>2, UnderFront
        <3>2. Len(Front(c.to)) < Len(c.to)
            BY <2>1, <2>2, FrontAppend
        <3>3. ~Under(c.to, Front(c.to))
            BY <2>2, <3>1, <3>2, UnderItems
        <3>4. ~Under(c.path, Front(c.to))
            BY <2>2, <3>1, UnderTrans DEF Begun
        <3> QED  BY <3>3, <3>4
    <2>4. r[Front(c.to)] = "dir"
        BY <2>1, <2>2, <2>3 DEF Moves
    <2> QED  BY <1>1, <1>2, <2>1, <2>2, <2>4
<1>4. CASE n # 1
    <2>1. n \in 2..n /\ Current(dirs, n, e, n) = e
        BY <1>1, <1>4 DEF Current
    <2>2. Within(r, c, dirs, n)
        BY <2>1 DEF Walk
    <2>3. Current(dirs, n, e, n) # NULL =>
             \E k \in Name : Current(dirs, n, e, n) = Append(dirs[n], k)
        BY <2>1 DEF Walk
    <2>4. PICK k \in Name : e = Append(dirs[n], k)
        BY <2>1, <2>3
    <2>5. dirs[n] \in Path /\ Under(c.path, dirs[n]) /\ r[New(dirs[n], c)] = "dir"
        BY <2>2 DEF Within
    <2>6. New(e, c) = Append(New(dirs[n], c), k) /\ New(dirs[n], c) \in Seq(Name)
          /\ New(dirs[n], c) \in Path
        BY <1>1, <2>4, <2>5, CallFacts, SMTT(30)
    <2>7. New(e, c) # << >> /\ Front(New(e, c)) = New(dirs[n], c)
        <3> HIDE NamespaceAssumption
        <3> QED  BY <2>6, AppendFront
    <2> QED  BY <1>1, <1>2, <2>5, <2>6, <2>7
<1> QED  BY <1>3, <1>4

(* What has its copy may go.                                               *)
LEMMA MovesGone ==
    ASSUME NEW r \in [Path -> Kinds], NEW was, NEW c, Begun(was, c), Moves(r, was, c),
           NEW e \in Path, Under(c.path, e), r[New(e, c)] = was[e]
    PROVE  Moves([r EXCEPT ![e] = "absent"], was, c)
<1> DEFINE r2 == [r EXCEPT ![e] = "absent"]
<1>1. c \in Calls /\ c.op = "rename"
    BY DEF Begun
<1>2. r2[e] = "absent" /\ \A p \in Path \ {e} : r2[p] = r[p]
    OBVIOUS
<1>3. ASSUME NEW p \in Path
      PROVE  /\ ~Under(c.path, p) /\ ~Under(c.to, p) => r2[p] = was[p]
             /\ Under(c.path, p) =>
                /\ r2[p] = was[p] \/ (r2[p] = "absent" /\ r2[New(p, c)] = was[p])
                /\ r2[New(p, c)] \in {was[New(p, c)], was[p]}
    <2>1. /\ ~Under(c.path, p) /\ ~Under(c.to, p) => r[p] = was[p]
          /\ Under(c.path, p) =>
                /\ r[p] = was[p] \/ (r[p] = "absent" /\ r[New(p, c)] = was[p])
                /\ r[New(p, c)] \in {was[New(p, c)], was[p]}
        BY DEF Moves
    <2>2. Under(c.path, p) => New(p, c) \in Path /\ New(p, c) # e
        BY <1>1, CallFacts, Separate
    <2> QED  BY <1>2, <2>1, <2>2
<1> QED  BY <1>3 DEF Moves

(* A copy may come.                                                        *)
LEMMA MovesPut ==
    ASSUME NEW r \in [Path -> Kinds], NEW was, NEW c, Begun(was, c), Moves(r, was, c),
           NEW e \in Path, Under(c.path, e), r[e] # "absent"
    PROVE  Moves([r EXCEPT ![New(e, c)] = r[e]], was, c)
<1> DEFINE r2 == [r EXCEPT ![New(e, c)] = r[e]]
<1>1. c \in Calls /\ c.op = "rename" /\ New(e, c) \in Path /\ Under(c.to, New(e, c))
    BY CallFacts DEF Begun
<1>2. r2[New(e, c)] = r[e] /\ \A p \in Path \ {New(e, c)} : r2[p] = r[p]
    BY <1>1
<1>3. r[e] = was[e]
    BY DEF Moves
<1>4. ASSUME NEW p \in Path
      PROVE  /\ ~Under(c.path, p) /\ ~Under(c.to, p) => r2[p] = was[p]
             /\ Under(c.path, p) =>
                /\ r2[p] = was[p] \/ (r2[p] = "absent" /\ r2[New(p, c)] = was[p])
                /\ r2[New(p, c)] \in {was[New(p, c)], was[p]}
    <2>1. /\ ~Under(c.path, p) /\ ~Under(c.to, p) => r[p] = was[p]
          /\ Under(c.path, p) =>
                /\ r[p] = was[p] \/ (r[p] = "absent" /\ r[New(p, c)] = was[p])
                /\ r[New(p, c)] \in {was[New(p, c)], was[p]}
        BY DEF Moves
    <2>2. Under(c.path, p) => p # New(e, c) /\ New(p, c) \in Path
        BY <1>1, CallFacts, Separate
    <2>3. Under(c.path, p) /\ p # e => New(p, c) # New(e, c)
        BY <1>1, CallFacts
    <2>4. CASE p = e
        BY <1>1, <1>2, <1>3, <2>1, <2>2, <2>4
    <2>5. CASE p # e
        BY <1>1, <1>2, <2>1, <2>2, <2>3, <2>5
    <2> QED  BY <2>4, <2>5
<1> QED  BY <1>4 DEF Moves

(* When nothing is left at the old path, everything is at its new one.     *)
LEMMA MovesDone ==
    ASSUME NEW r, Rooted(r), NEW was, NEW c, Begun(was, c), Moves(r, was, c),
           r[c.path] = "absent", NEW p \in Path, Under(c.path, p)
    PROVE  /\ r[p] = "absent"
           /\ was[p] # "absent" => r[New(p, c)] = was[p]
<1>1. c \in Calls /\ c.op = "rename" /\ c.path \in Path
    BY CallFacts DEF Begun
<1>2. r[p] = "absent"
    <2>1. CASE p = c.path
        BY <2>1
    <2>2. CASE p # c.path
        <3>1. r[c.path] # "dir" \/ Names(r, c.path) = {}
            OBVIOUS
        <3> HIDE NamespaceAssumption, RetryAssumption
        <3> QED  BY <1>1, <2>2, <3>1, RootedBelow
    <2> QED  BY <2>1, <2>2
<1> QED  BY <1>2 DEF Moves

-----------------------------------------------------------------------------
(* The store is a tree at every time: nothing is made outside a directory, *)
(* and no directory goes before what is in it.                             *)

(* What is made has a directory, and no directory is replaced.             *)
LEMMA RootedPut ==
    ASSUME NEW r \in [Path -> Kinds], Rooted(r), NEW p \in Path, p # << >>, r[Front(p)] = "dir",
           NEW k \in Kinds, r[p] = "dir" => k = "dir"
    PROVE  Rooted([r EXCEPT ![p] = k])
<1>1. p \in Seq(Name)
    OBVIOUS
<1>2. Front(p) # p
    BY <1>1, UnderFront
<1>3. \A x \in Path \ {<< >>} : Front(x) \in Path
    OBVIOUS
<1> QED  BY <1>2, <1>3 DEF Rooted

(* What is removed is not the root, and no directory with entries.         *)
LEMMA RootedGone ==
    ASSUME NEW r \in [Path -> Kinds], Rooted(r), NEW p \in Path, p # << >>,
           r[p] # "dir" \/ Names(r, p) = {}
    PROVE  Rooted([r EXCEPT ![p] = "absent"])
<1> DEFINE r2 == [r EXCEPT ![p] = "absent"]
<1>1. ASSUME NEW x \in Path \ {<< >>}, r2[x] # "absent" PROVE r2[Front(x)] = "dir"
    <2>1. x # p /\ r[x] # "absent" /\ r[Front(x)] = "dir" /\ Front(x) \in Path
        BY <1>1 DEF Rooted
    <2>2. Front(x) # p
        <3> SUFFICES ASSUME Front(x) = p PROVE FALSE
            OBVIOUS
        <3>1. x \in Seq(Name) /\ x # << >>
            OBVIOUS
        <3>2. x = Append(p, x[Len(x)]) /\ x[Len(x)] \in Name
            BY <3>1, FrontAppend
        <3>3. x[Len(x)] \in Names(r, p)
            BY <2>1, <3>2, NamesFacts
        <3> QED  BY <2>1, <3>3
    <2> QED  BY <2>1, <2>2
<1>2. r2[<< >>] = "dir"
    BY DEF Rooted
<1> QED  BY <1>1, <1>2 DEF Rooted

(* What the kernel has checked of the paths of a call.                     *)
Checked(w) ==
    call[w] # NULL =>
        /\ call[w].op = "rmdir" => call[w].path # << >>
        /\ call[w].op = "rename" => /\ ~Under(call[w].path, call[w].to)
                                    /\ ~Under(call[w].to, call[w].path)

(* A call that enters has been checked, and one that is served stays.      *)
LEMMA CheckedStep ==
    ASSUME BaseInv, NEW w \in Worker, Checked(w), [Next]_vars PROVE Checked(w)'
<1>0. call \in [Worker -> Calls \cup {NULL}]
    BY DEF BaseInv, ShapeInv
<1>1. ASSUME NEW v \in Worker, Call(v)
      PROVE  \E c \in Calls : Allowed(c) /\ call' = [call EXCEPT ![v] = c]
    BY <1>1
    DEF Call, dfs_mkdir, dfs_mknod, dfs_rmdir, dfs_symlink, dfs_readlink, dfs_opendir,
        dfs_readdir, readdir_no_cell, dfs_unlink, dfs_rename, EnterWith, Enter
<1>2. ASSUME NEW c \in Calls, Allowed(c)
      PROVE  /\ c.op = "rmdir" => c.path # << >>
             /\ c.op = "rename" => ~Under(c.path, c.to) /\ ~Under(c.to, c.path)
    BY <1>2 DEF Allowed
<1>3. ASSUME NEW v \in Worker, Call(v) PROVE Checked(w)'
    <2>1. PICK c \in Calls : Allowed(c) /\ call' = [call EXCEPT ![v] = c]
        BY <1>1, <1>3
    <2>2. call'[w] = IF v = w THEN c ELSE call[w]
        BY <1>0, <2>1
    <2> QED  BY <1>2, <2>1, <2>2 DEF Checked
<1>4. ASSUME call' = call PROVE Checked(w)'
    BY <1>4 DEF Checked
<1>5. ASSUME NEW v \in Worker, Attempt(v) PROVE call' = call
    BY <1>5 DEF Attempt
<1>6. ASSUME NEW v \in Worker, Handler(v) PROVE Checked(w)'
    <2>1. call' = call \/ call' = [call EXCEPT ![v] = NULL]
        BY <1>6, HandlerKeeps
    <2>2. call'[w] = call[w] \/ call'[w] = NULL
        BY <1>0, <2>1
    <2> QED  BY <2>2 DEF Checked
<1>7. ASSUME NEW p \in Cacheable, Cached(p) PROVE call' = call
    BY <1>7 DEF Cached, self
<1>8. CASE UNCHANGED vars
    BY <1>4, <1>8 DEF vars, self
<1> QED  BY <1>3, <1>4, <1>5, <1>6, <1>7, <1>8 DEF Next

(* Every request leaves a tree.                                            *)
LEMMA RootedAttempt ==
    ASSUME MadeInv, Rooted(remote), NEW v \in Worker, Checked(v), Attempt(v)
    PROVE  Rooted(remote')
<1>0. BaseInv /\ Making /\ ShapeInv /\ ServeInv(v) /\ ReachInv(v) /\ MakingInv(v)
      /\ remote \in [Path -> Kinds]
    BY DEF MadeInv, BaseInv, Own, Making, ShapeInv
<1>1. call[v] # NULL /\ rc[v] = NULL /\ fn[v] # NULL
    BY DEF Attempt, Answer
<1>2. /\ Serving(v) /\ call[v] \in Calls /\ <<call[v].op, pc[v]>> \in Stage
      /\ pc[v] # "loop" /\ <<pc[v], fn[v]>> \in RequestAt
      /\ arg[v] \in [path : String, to : String]
    BY <1>0, <1>1 DEF ServeInv, Serving, ShapeInv
<1> DEFINE f == fn[v]
           p == Resolve(arg[v].path)
           q == arg[v].to
<1>3. CASE remote' = remote
    BY <1>3
<1>4. CASE StatusOf(f, p, q) = "DPL_SUCCESS" /\ remote' = Effect(f, p, q)
    <2>1. CASE f \notin {"dpl_mknod", "dpl_mkdir", "dpl_unlink", "dpl_rmdir", "dpl_fcopy",
                         "dpl_setattr"}
        BY <1>4, <2>1 DEF Effect
    <2>2. CASE f = "dpl_mknod"
        <3>1. HasParent(p) /\ ~IsDir(p) /\ remote' = [remote EXCEPT ![p] = "empty"]
            BY <1>4, <2>2 DEF StatusOf, Effect
        <3>2. p \in Path /\ p # << >> /\ remote[Front(p)] = "dir" /\ remote[p] # "dir"
            BY <3>1 DEF HasParent, IsDir
        <3> QED  BY <1>0, <3>1, <3>2, RootedPut DEF Kinds
    <2>3. CASE f = "dpl_mkdir"
        <3>1. HasParent(p) /\ remote' = [remote EXCEPT ![p] = "dir"]
            BY <1>4, <2>3 DEF StatusOf, Effect
        <3>2. p \in Path /\ p # << >> /\ remote[Front(p)] = "dir"
            BY <3>1 DEF HasParent, IsDir
        <3> QED  BY <1>0, <3>1, <3>2, RootedPut DEF Kinds
    <2>4. CASE f = "dpl_unlink"
        <3>1. There(p) /\ ~IsDir(p) /\ remote' = [remote EXCEPT ![p] = "absent"]
            BY <1>4, <2>4 DEF StatusOf, Effect
        <3>2. p \in Path /\ p # << >> /\ remote[p] # "dir"
            BY <3>1 DEF There, IsDir, Rooted
        <3> QED  BY <1>0, <3>1, <3>2, RootedGone
    <2>5. CASE f = "dpl_rmdir"
        <3>1. IsDir(p) /\ Names(remote, p) = {} /\ remote' = [remote EXCEPT ![p] = "absent"]
            BY <1>4, <2>5 DEF StatusOf, Effect
        <3>2. p \in Path
            BY <3>1 DEF IsDir
        <3>3. p # << >>
            <4>1. pc[v] \in {"rmdir", "dir_rmdir"}
                BY <1>2, <2>5 DEF RequestAt
            <4>2. CASE pc[v] = "rmdir"
                <5>1. call[v].op = "rmdir"
                    BY <1>2, <4>2 DEF Stage, RenamePc, BelowPc
                <5>2. arg[v].path = call[v].path /\ call[v].path # NULL
                    BY <1>0, <1>2, <4>2, <5>1 DEF ServeInv
                <5> QED  BY <1>1, <5>1, <5>2 DEF Checked, Resolve
            <4>3. CASE pc[v] = "dir_rmdir"
                <5>1. call[v].op = "rename" /\ stack[v] # << >>
                    BY <1>0, <1>2, <4>3 DEF Stage, ServeInv
                <5>2. arg[v].path # NULL /\ Reaches(call[v], arg[v].path)
                    BY <1>0, <4>3, <5>1 DEF ReachInv
                <5>3. ~Under(<<"cache_dir">>, p) /\ p = arg[v].path /\ p \in Seq(Name)
                    BY <3>2, <5>2 DEF Resolve
                <5>4. Under(call[v].path, p) \/ Under(call[v].to, p)
                    BY <5>1, <5>2, <5>3 DEF Reaches, Touches
                <5>5. ~Under(call[v].path, call[v].to) /\ ~Under(call[v].to, call[v].path)
                    BY <1>1, <5>1 DEF Checked
                <5>6. call[v].path \in Seq(Name) /\ call[v].to \in Seq(Name)
                    BY <1>2, <5>1, CallFacts
                <5> HIDE NamespaceAssumption DEF p
                <5> QED  BY <5>3, <5>4, <5>5, <5>6, UnderItems
            <4> QED  BY <4>1, <4>2, <4>3
        <3> QED  BY <1>0, <3>1, <3>2, <3>3, RootedGone
    <2>6. CASE f = "dpl_fcopy"
        <3>1. There(p) /\ ~IsDir(p) /\ HasParent(q) /\ ~IsDir(q)
              /\ remote' = [remote EXCEPT ![q] = remote[p]]
            BY <1>4, <2>6 DEF StatusOf, Effect
        <3>2. q \in Path /\ q # << >> /\ remote[Front(q)] = "dir" /\ remote[q] # "dir"
              /\ remote[p] \in Kinds
            BY <1>0, <3>1 DEF HasParent, IsDir, There
        <3> QED  BY <1>0, <3>1, <3>2, RootedPut
    <2>7. CASE f = "dpl_setattr"
        <3>1. remote' = [remote EXCEPT ![p] = "symlink"]
            BY <1>4, <2>7 DEF Effect
        <3>2. pc[v] = "symlink_setattr" /\ call[v].op = "symlink"
            BY <1>2, <2>7 DEF RequestAt, Stage, RenamePc, BelowPc
        <3>3. arg[v].path = call[v].path /\ call[v].path # NULL
            BY <1>0, <1>2, <3>2 DEF ServeInv
        <3>4. HasParent(p) /\ remote[p] # "dir"
            BY <1>0, <1>1, <3>2, <3>3 DEF MakingInv, Resolve
        <3>5. p \in Path /\ p # << >> /\ remote[Front(p)] = "dir"
            BY <3>4 DEF HasParent, IsDir
        <3> QED  BY <1>0, <3>1, <3>4, <3>5, RootedPut DEF Kinds
    <2> QED  BY <2>1, <2>2, <2>3, <2>4, <2>5, <2>6, <2>7
<1> QED  BY <1>3, <1>4 DEF Attempt, tree

-----------------------------------------------------------------------------
(* What a rename that has met no refusal is at.                            *)

(* No request of w's rename has failed, its new path holds nothing that is *)
(* in the way, and the ring reaches.                                       *)
Smooth(w) ==
    /\ call[w] # NULL /\ call[w].op = "rename" /\ before[w] # NULL
    /\ Names(before[w], call[w].to) = {} /\ Fits(before[w], call[w].path)

(* The walk of the frames: a directory counts from its listing to its      *)
(* removal; before and after it is an item of the directory above.         *)
EnteringPc == {"dir_namei", "dir_mkdir", "dir_chdir", "dir_opendir"}
Emptied(w) == pc[w] = "dir_rmdir" /\ Succeeded(w)
Dirs(w)    == [i \in 1..Len(stack[w]) |-> strings[w][stack[w][i].src]]
Todo(w)    == [i \in 1..Len(stack[w]) |-> stack[w][i].todo]
Depth(w)   == IF pc[w] \in EnteringPc \/ Emptied(w) THEN Len(stack[w]) - 1
                                                    ELSE Len(stack[w])
Item(w)    == IF pc[w] \in EnteringPc \/ Emptied(w) THEN Src(w)
              ELSE IF pc[w] \in {"loop", "dir_rmdir"} THEN NULL ELSE arg[w].path

(* What is known where the rename waits for a request on item e, whose new *)
(* path is q.                                                              *)
AskedOf(w, e, q) ==
    /\ pc[w] \in {"rename_namei", "entry_namei"} =>
        /\ remote[e] # "absent"
        /\ Succeeded(w) => Top(w).type = TypeOf(e)
    /\ pc[w] = "rename_namei" => Len(stack[w]) = 1
    /\ pc[w] = "entry_namei" => /\ e = strings[w][Top(w).src_entry]
                                /\ q = strings[w][Top(w).dst_entry]
    /\ pc[w] = "fcopy" =>
        /\ remote[e] \notin {"absent", "dir"} /\ arg[w].to = q
        /\ Succeeded(w) => remote[q] = remote[e]
    /\ pc[w] = "unlink" =>
        /\ remote[q] = before[w][e] /\ before[w][e] # "dir" /\ remote[e] # "dir"
        /\ remote[e] = "absent" <=> Succeeded(w)
    /\ pc[w] \in EnteringPc => remote[e] = "dir" /\ q = Dst(w)
    /\ pc[w] \in {"dir_namei", "dir_mkdir"} =>
        /\ arg[w].path = q
        /\ Succeeded(w) => remote[q] = "dir"
    /\ pc[w] \in {"dir_chdir", "dir_opendir"} => remote[q] = "dir"
    /\ pc[w] = "dir_chdir" => arg[w].path = e /\ (Succeeded(w) => cwd = e)
    /\ pc[w] = "dir_opendir" => /\ arg[w].path = NULL /\ cwd = e
                                /\ Succeeded(w) => list[w] = Names(remote, e)
    /\ pc[w] = "dir_rmdir" => /\ arg[w].path = Src(w) /\ Top(w).todo = {}
                              /\ Succeeded(w) => remote[e] = "absent"
Asked(w) ==
    /\ pc[w] # "loop" =>
        rc[w] \in {NULL, "DPL_SUCCESS"} \cup IF pc[w] = "dir_namei" THEN {"DPL_ENOENT"} ELSE {}
    /\ AskedOf(w, Item(w), New(Item(w), call[w]))

Course(w) ==
    /\ Moves(remote, before[w], call[w])
    /\ Walk(remote, call[w], Dirs(w), Todo(w), Depth(w), Item(w))
    /\ \A i \in 1..Len(stack[w]) : stack[w][i].ret # -1
    /\ Asked(w)
Arrived(w) ==
    /\ Moves(remote, before[w], call[w])
    /\ ret[w] = 0 /\ remote[call[w].path] = "absent"

(* What a step that prints no path of an entry does to where the rename is *)
(* and to the buffers it has: it stays, drops what is gone, goes down into *)
(* a directory or up from one, or takes a frame for the entry it is at.    *)
Going(w) ==
    LET e == Item(w)
        n == Depth(w)
        k == Len(stack[w])
    IN
    /\ \A x \in Path : Under(call[w].path, x) /\ remote[x] = "absent" => remote'[x] = "absent"
    /\ \A i \in 2..n : Dirs(w)'[i] = Dirs(w)[i]
    /\ \/ Item(w)' = e /\ Depth(w)' = n
       \/ Item(w)' = NULL /\ Depth(w)' = n /\ e # NULL /\ remote'[e] = "absent"
       \/ Item(w)' = NULL /\ Depth(w)' = n + 1 /\ Dirs(w)'[n + 1] = e
       \/ /\ e = NULL /\ n > 1 /\ Depth(w)' = n - 1
          /\ Item(w)' = Dirs(w)[n] /\ before[w][Dirs(w)[n]] = "dir"
    /\ \A i \in 1..Len(stack'[w]) :
        \/ /\ i <= k /\ Dirs(w)'[i] = Dirs(w)[i]
           /\ stack'[w][i].src = stack[w][i].src /\ stack'[w][i].dst = stack[w][i].dst
        \/ /\ i = k + 1 /\ remote[e] = "dir" /\ Item(w)' = e
           /\ IF pc[w] = "rename_namei"
              THEN k = 1 /\ stack'[w][i].src = OLDPATH /\ stack'[w][i].dst = NEWPATH
              ELSE /\ pc[w] = "entry_namei" /\ stack'[w][i].src = Top(w).src_entry
                   /\ stack'[w][i].dst = Top(w).dst_entry
    /\ \/ current'[w] = current[w]
       \/ pc[w] = "unlink" /\ Item(w)' = NULL /\ current'[w] = tmpstr_new(current[w])
    /\ pc'[w] = "entry_namei" =>
        /\ pc[w] = "entry_namei" /\ current'[w] = current[w]
        /\ Top(w)'.src_entry = Top(w).src_entry /\ Top(w)'.dst_entry = Top(w).dst_entry

(* What is known of the worker of such a rename.                           *)
LEMMA SmoothFacts ==
    ASSUME BaseInv, NEW w \in Worker, Smooth(w), Serving(w), Begun(before[w], call[w])
    PROVE  /\ ShapeInv /\ Own(w) /\ ServeInv(w) /\ ReachInv(w)
           /\ remote \in [Path -> Kinds] /\ call[w] \in Calls /\ call[w].op = "rename"
           /\ stack[w] \in Seq(Frames) /\ stack[w] # << >>
           /\ Len(stack[w]) \in Nat /\ Len(stack[w]) > 0
           /\ Len(stack[w]) \in 1..Len(stack[w]) /\ Top(w) \in Frames
           /\ pc[w] \in RenamePc /\ (pc[w] \in BelowPc => Len(stack[w]) > 1)
           /\ pc[w] # "loop" => <<pc[w], fn[w]>> \in RequestAt
           /\ arg[w] \in [path : String, to : String]
<1>1. /\ ShapeInv /\ Own(w) /\ ServeInv(w) /\ ReachInv(w)
      /\ remote \in [Path -> Kinds] /\ call[w] \in Calls /\ call[w].op = "rename"
      /\ stack[w] \in Seq(Frames)
    BY DEF BaseInv, Own, ShapeInv, Begun
<1>2. stack[w] # << >> /\ <<call[w].op, pc[w]>> \in Stage /\ arg[w] \in [path : String, to : String]
      /\ (pc[w] \in BelowPc => Len(stack[w]) > 1)
      /\ (pc[w] # "loop" => <<pc[w], fn[w]>> \in RequestAt)
    BY <1>1 DEF ServeInv
<1>3. pc[w] \in RenamePc
    BY <1>1, <1>2 DEF Stage
<1>4. Len(stack[w]) \in Nat /\ Len(stack[w]) > 0 /\ Top(w) \in Frames
    BY <1>1, <1>2, FrameFacts DEF Top
<1> QED  BY <1>1, <1>2, <1>3, <1>4

(* An attempt of such a rename is answered, when it has not been refused   *)
(* in the end.                                                             *)
LEMMA AnswerFacts ==
    ASSUME NEW w \in Worker, Attempt(w), DOMAIN before = Worker, before'[w] # NULL
    PROVE  LET p == Resolve(arg[w].path)
               s == StatusOf(fn[w], p, arg[w].to)
           IN  /\ before' = before /\ Answer(w, s)
               /\ UNCHANGED <<call, pc, arg, strings, current, ret>>
               /\ remote' = IF s = "DPL_SUCCESS" THEN Effect(fn[w], p, arg[w].to) ELSE remote
               /\ cwd' = IF s = "DPL_SUCCESS" /\ fn[w] = "dpl_chdir" THEN p ELSE cwd
               /\ list' = IF s = "DPL_SUCCESS" /\ fn[w] = "dpl_opendir"
                          THEN [list EXCEPT ![w] = Names(remote, p)] ELSE list
               /\ stack' = IF s = "DPL_SUCCESS" /\ fn[w] = "dpl_namei"
                           THEN [stack EXCEPT ![w][Len(stack[w])].type = TypeOf(p)]
                           ELSE stack
BY DEF Attempt, ring

(* It leaves the frames alone, but for the type.                           *)
LEMMA SameFrames ==
    ASSUME BaseInv, NEW w \in Worker, Smooth(w), Serving(w), Begun(before[w], call[w]),
           Attempt(w)
    PROVE  /\ Dirs(w)' = Dirs(w) /\ Todo(w)' = Todo(w) /\ Len(stack'[w]) = Len(stack[w])
           /\ \A i \in 1..Len(stack[w]) : stack'[w][i].ret = stack[w][i].ret
           /\ Src(w)' = Src(w) /\ Dst(w)' = Dst(w) /\ Top(w)'.todo = Top(w).todo
           /\ Top(w)'.src_entry = Top(w).src_entry /\ Top(w)'.dst_entry = Top(w).dst_entry
           /\ \A i \in 1..Len(stack[w]) : /\ stack'[w][i].src = stack[w][i].src
                                          /\ stack'[w][i].dst = stack[w][i].dst
           /\ UNCHANGED <<strings, current, call, pc>>
<1>0. /\ stack[w] \in Seq(Frames) /\ stack[w] # << >> /\ stack \in [Worker -> Seq(Frames)]
      /\ Len(stack[w]) \in Nat /\ Len(stack[w]) > 0 /\ Len(stack[w]) \in 1..Len(stack[w])
      /\ Top(w) \in Frames
    BY SmoothFacts DEF ShapeInv
<1>1. UNCHANGED <<strings, current, call, pc>>
    BY DEF Attempt, ring
<1>2. \/ stack' = stack
      \/ \E t : stack' = [stack EXCEPT ![w][Len(stack[w])].type = t]
    BY DEF Attempt
<1>3. /\ Len(stack'[w]) = Len(stack[w])
      /\ \A i \in 1..Len(stack[w]) : /\ stack'[w][i].src = stack[w][i].src
                                     /\ stack'[w][i].dst = stack[w][i].dst
                                     /\ stack'[w][i].todo = stack[w][i].todo
                                     /\ stack'[w][i].ret = stack[w][i].ret
                                     /\ stack'[w][i].src_entry = stack[w][i].src_entry
                                     /\ stack'[w][i].dst_entry = stack[w][i].dst_entry
    <2>1. CASE stack' = stack
        BY <2>1
    <2>2. CASE \E t : stack' = [stack EXCEPT ![w][Len(stack[w])].type = t]
        <3>1. PICK t : stack' = [stack EXCEPT ![w][Len(stack[w])].type = t]
            BY <2>2
        <3>2. stack'[w] = [stack[w] EXCEPT ![Len(stack[w])] =
                              [stack[w][Len(stack[w])] EXCEPT !.type = t]]
            BY <1>0, <3>1
        <3>3. /\ Len(stack'[w]) = Len(stack[w])
              /\ \A i \in 1..Len(stack[w]) :
                    stack'[w][i] = IF i = Len(stack[w]) THEN [Top(w) EXCEPT !.type = t]
                                   ELSE stack[w][i]
            BY <1>0, <3>2 DEF Top
        <3> QED  BY <1>0, <3>3, SMTT(30) DEF Frames, Top
    <2> QED  BY <1>2, <2>1, <2>2
<1>4. Dirs(w)' = Dirs(w) /\ Todo(w)' = Todo(w)
    BY <1>1, <1>3 DEF Dirs, Todo
<1> QED  BY <1>0, <1>1, <1>3, <1>4 DEF Src, Dst, Top

(* An attempt moves nothing in the frames and takes no buffer.             *)
LEMMA GoingAttempt ==
    ASSUME BaseInv, NEW w \in Worker, Smooth(w), Serving(w), Begun(before[w], call[w]),
           Attempt(w), Depth(w) \in Nat, Depth(w) <= Len(stack[w]),
           \A x \in Path : Under(call[w].path, x) /\ remote[x] = "absent" => remote'[x] = "absent",
           \/ Item(w)' = Item(w) /\ Depth(w)' = Depth(w)
           \/ /\ Item(w) = NULL /\ Depth(w) > 1 /\ Depth(w)' = Depth(w) - 1
              /\ Item(w)' = Dirs(w)[Depth(w)] /\ before[w][Dirs(w)[Depth(w)]] = "dir"
    PROVE  Going(w)
<1>1. Len(stack[w]) \in Nat
    BY SmoothFacts
<1> QED  BY <1>1, SameFrames DEF Going

(* The rename is at something, but between two entries.                    *)
LEMMA ItemThere ==
    ASSUME BaseInv, NEW w \in Worker, Smooth(w), Serving(w), Begun(before[w], call[w]),
           pc[w] \notin {"loop", "dir_rmdir"} \/ Emptied(w)
    PROVE  Item(w) # NULL
<1>1. ReachInv(w) /\ stack[w] \in Seq(Frames) /\ stack[w] # << >>
      /\ Len(stack[w]) \in 1..Len(stack[w])
    BY SmoothFacts
<1>2. Printed(w, Top(w))
    BY <1>1 DEF ReachInv, Top
<1>3. Src(w) # NULL
    BY <1>2 DEF Printed, Src
<1>4. pc[w] \notin {"loop", "dir_opendir"} => arg[w].path # NULL
    BY <1>1 DEF ReachInv
<1> QED  BY <1>3, <1>4 DEF Item, EnteringPc

(* What names are looked up, or listed, is there.                          *)
LEMMA SmoothLook ==
    ASSUME MadeInv, NEW w \in Worker, Smooth(w), Serving(w), Begun(before[w], call[w]),
           Course(w), DOMAIN before = Worker, before'[w] # NULL, Attempt(w),
           pc[w] \in {"rename_namei", "entry_namei", "dir_namei", "dir_chdir", "dir_opendir"}
    PROVE  Course(w)' /\ Going(w)
<1>0. BaseInv
    BY DEF MadeInv
<1> DEFINE e == Item(w)
           c == call[w]
           p == Resolve(arg[w].path)
           s == StatusOf(fn[w], p, arg[w].to)
<1>1. /\ call[w] \in Calls /\ call[w].op = "rename" /\ <<pc[w], fn[w]>> \in RequestAt
      /\ Len(stack[w]) \in Nat /\ Len(stack[w]) > 0 /\ Top(w) \in Frames
      /\ (pc[w] \in EnteringPc => Len(stack[w]) > 1)
      /\ stack \in [Worker -> Seq(Frames)] /\ stack[w] \in Seq(Frames) /\ stack[w] # << >>
      /\ rc \in [Worker -> Status \cup {NULL}] /\ list \in [Worker -> SUBSET Name]
      /\ remote \in [Path -> Kinds]
    BY <1>0, SmoothFacts DEF BelowPc, EnteringPc, ShapeInv, RetryTypeOK
<1>2. /\ fn[w] = IF pc[w] = "dir_chdir" THEN "dpl_chdir"
                 ELSE IF pc[w] = "dir_opendir" THEN "dpl_opendir" ELSE "dpl_namei"
    BY <1>1 DEF RequestAt
<1>3. /\ Moves(remote, before[w], c) /\ AskedOf(w, e, New(e, c))
      /\ Walk(remote, c, Dirs(w), Todo(w), Depth(w), e)
      /\ \A i \in 1..Len(stack[w]) : stack[w][i].ret # -1
    BY DEF Course, Asked
<1>4. ~Emptied(w) /\ rc[w] = NULL /\ UNCHANGED <<pc, arg, call, before>>
    BY <1>0, AnswerFacts DEF Emptied, Attempt, Answer
<1>5. e \in Path /\ e # NULL /\ Under(c.path, e) /\ New(e, c) \in Path
    <2>1. e # NULL
        BY <1>0, ItemThere
    <2> QED  BY <1>1, <1>3, <2>1, CallFacts DEF Walk
<1>6. /\ Dirs(w)' = Dirs(w) /\ Todo(w)' = Todo(w) /\ Len(stack'[w]) = Len(stack[w])
      /\ \A i \in 1..Len(stack[w]) : stack'[w][i].ret = stack[w][i].ret
      /\ Src(w)' = Src(w) /\ Dst(w)' = Dst(w)
      /\ Top(w)'.src_entry = Top(w).src_entry /\ Top(w)'.dst_entry = Top(w).dst_entry
      /\ strings'[w] = strings[w]
    BY <1>0, SameFrames
<1>7. e' = e /\ Depth(w)' = Depth(w)
    BY <1>4, <1>6 DEF Item, Depth, Emptied
<1>8. /\ remote' = remote
      /\ cwd' = IF s = "DPL_SUCCESS" /\ fn[w] = "dpl_chdir" THEN p ELSE cwd
      /\ list' = IF s = "DPL_SUCCESS" /\ fn[w] = "dpl_opendir"
                 THEN [list EXCEPT ![w] = Names(remote, p)] ELSE list
      /\ stack' = IF s = "DPL_SUCCESS" /\ fn[w] = "dpl_namei"
                  THEN [stack EXCEPT ![w][Len(stack[w])].type = TypeOf(p)] ELSE stack
      /\ Answer(w, s)
    BY <1>2, AnswerFacts DEF Effect
<1>9. rc' = [rc EXCEPT ![w] = s] \/ rc' = rc
    BY <1>8 DEF Answer, ERR_TIMEOUT
<1>10. rc'[w] = s \/ rc'[w] = NULL
    BY <1>1, <1>4, <1>9
<1>11. Item(w)' = e /\ New(Item(w), call[w])' = New(e, c)
    BY <1>4, <1>7 DEF New, Moved
<1>17. Going(w)
    <2>1. Depth(w) \in Nat /\ Depth(w) <= Len(stack[w])
        BY <1>1, <1>3 DEF Walk, Depth
    <2> QED  BY <1>0, <1>7, <1>8, <2>1, GoingAttempt
<1> SUFFICES Asked(w)'
    BY <1>3, <1>4, <1>6, <1>7, <1>8, <1>17 DEF Course
<1>12. CASE pc[w] \in {"rename_namei", "entry_namei"}
    <2>1. e = arg[w].path /\ p = e /\ There(e)
        BY <1>3, <1>4, <1>5, <1>12 DEF Item, EnteringPc, Resolve, AskedOf, There
    <2>2. s = "DPL_SUCCESS"
        BY <1>2, <1>12, <2>1 DEF StatusOf
    <2>3. stack' = [stack EXCEPT ![w][Len(stack[w])].type = TypeOf(e)]
        BY <1>2, <1>8, <1>12, <2>1, <2>2
    <2>4. Top(w)'.type = TypeOf(e)
        BY <1>1, <2>3 DEF Top, Frames
    <2>5. TypeOf(e)' = TypeOf(e)
        BY <1>7, <1>8 DEF TypeOf, IsDir
    <2> HIDE DEF e, s
    <2> QED  BY <1>3, <1>4, <1>6, <1>7, <1>8, <1>10, <1>11, <1>12, <2>2, <2>4, <2>5
             DEF Asked, AskedOf, EnteringPc, Succeeded
<1>13. CASE pc[w] = "dir_namei"
    <2>1. p = New(e, c) /\ e = Src(w) /\ New(e, c) = Dst(w) /\ remote[e] = "dir"
        BY <1>1, <1>3, <1>4, <1>5, <1>13, CallFacts DEF Item, EnteringPc, Resolve, AskedOf
    <2>2. /\ s \in {"DPL_SUCCESS", "DPL_ENOENT"}
          /\ s = "DPL_SUCCESS" => remote[p] # "absent"
        BY <1>2, <1>13, <2>1 DEF StatusOf, There
    <2>3. remote[p] # "absent" => remote[p] = "dir"
        BY <1>3, <1>5, <2>1, NothingInTheWay
    <2> HIDE DEF e, s, p
    <2> QED  BY <1>3, <1>4, <1>6, <1>7, <1>8, <1>10, <1>11, <1>13, <2>1, <2>2, <2>3
             DEF Asked, AskedOf, EnteringPc, Succeeded
<1>14. CASE pc[w] = "dir_chdir"
    <2>1. p = e /\ e = Src(w) /\ New(e, c) = Dst(w) /\ remote[e] = "dir"
        BY <1>1, <1>3, <1>4, <1>5, <1>14 DEF Item, EnteringPc, Resolve, AskedOf
    <2>2. s = "DPL_SUCCESS"
        BY <1>2, <1>5, <1>14, <2>1 DEF StatusOf, There, IsDir
    <2>3. cwd' = e
        BY <1>2, <1>8, <1>14, <2>1, <2>2
    <2> HIDE DEF e, s, p
    <2> QED  BY <1>3, <1>4, <1>6, <1>7, <1>8, <1>10, <1>11, <1>14, <2>1, <2>2, <2>3
             DEF Asked, AskedOf, EnteringPc, Succeeded
<1>15. CASE pc[w] = "dir_opendir"
    <2>1. p = e /\ e = Src(w) /\ New(e, c) = Dst(w) /\ remote[e] = "dir" /\ cwd = e
          /\ arg[w].path = NULL
        BY <1>1, <1>3, <1>4, <1>5, <1>15 DEF Item, EnteringPc, Resolve, AskedOf
    <2>2. s = "DPL_SUCCESS"
        BY <1>2, <1>5, <1>15, <2>1 DEF StatusOf, IsDir
    <2>3. cwd' = e /\ list'[w] = Names(remote, e) /\ Names(remote, e)' = Names(remote, e)
        BY <1>1, <1>2, <1>7, <1>8, <1>15, <2>1, <2>2 DEF Names
    <2> HIDE DEF e, s, p
    <2> QED  BY <1>3, <1>4, <1>6, <1>7, <1>8, <1>10, <1>11, <1>15, <2>1, <2>2, <2>3
             DEF Asked, AskedOf, EnteringPc, Succeeded
<1> QED  BY <1>12, <1>13, <1>14, <1>15

(* A request that is done is answered at once.                             *)
LEMMA DoneAtOnce ==
    ASSUME BaseInv, NEW w \in Worker, Answer(w, "DPL_SUCCESS")
    PROVE  rc'[w] = "DPL_SUCCESS"
<1>1. fn[w] \in Fn /\ rc \in [Worker -> Status \cup {NULL}]
    BY DEF BaseInv, ShapeInv, RetryTypeOK, Answer
<1>2. "DPL_SUCCESS" \in Final(fn[w])
    BY <1>1 DEF Fn, Final, dfs_getattr_timeout, dfs_setattr_timeout, dfs_mknod_timeout,
                dfs_mkdir_timeout, dfs_unlink_timeout, dfs_rmdir_timeout, dfs_fcopy_timeout,
                dfs_chdir_timeout, dfs_opendir_timeout, dfs_namei_timeout, dfs_head_all_timeout
<1> QED  BY <1>1, <1>2 DEF Answer

(* What the walk is at is copied, or its new directory made.               *)
LEMMA SmoothPut ==
    ASSUME MadeInv, NEW w \in Worker, Smooth(w), Serving(w), Begun(before[w], call[w]),
           Course(w), DOMAIN before = Worker, before'[w] # NULL, Attempt(w),
           pc[w] \in {"dir_mkdir", "fcopy"}
    PROVE  Course(w)' /\ Going(w)
<1>0. BaseInv
    BY DEF MadeInv
<1> DEFINE e == Item(w)
           c == call[w]
           q == New(e, c)
           p == Resolve(arg[w].path)
           s == StatusOf(fn[w], p, arg[w].to)
<1>1. /\ call[w] \in Calls /\ call[w].op = "rename" /\ <<pc[w], fn[w]>> \in RequestAt
      /\ Len(stack[w]) \in Nat /\ Len(stack[w]) > 0
      /\ remote \in [Path -> Kinds]
    BY <1>0, SmoothFacts
<1>2. fn[w] = IF pc[w] = "fcopy" THEN "dpl_fcopy" ELSE "dpl_mkdir"
    BY <1>1 DEF RequestAt
<1>3. /\ Moves(remote, before[w], c) /\ AskedOf(w, e, q)
      /\ Walk(remote, c, Dirs(w), Todo(w), Depth(w), e)
      /\ \A i \in 1..Len(stack[w]) : stack[w][i].ret # -1
    BY DEF Course, Asked
<1>4. ~Emptied(w) /\ rc[w] = NULL /\ UNCHANGED <<pc, arg, call, before>>
    BY <1>0, AnswerFacts DEF Emptied, Attempt, Answer
<1>5. e # NULL
    BY <1>0, ItemThere
<1>6. /\ Dirs(w)' = Dirs(w) /\ Todo(w)' = Todo(w) /\ Len(stack'[w]) = Len(stack[w])
      /\ \A i \in 1..Len(stack[w]) : stack'[w][i].ret = stack[w][i].ret
      /\ Src(w)' = Src(w) /\ Dst(w)' = Dst(w)
    BY <1>0, SameFrames
<1>7. Item(w)' = e /\ New(Item(w), call[w])' = q /\ Depth(w)' = Depth(w)
    BY <1>4, <1>6 DEF Item, Depth, Emptied, New, Moved
<1>8. /\ e \in Path /\ Under(c.path, e) /\ q \in Path /\ q # << >> /\ Front(q) \in Path
      /\ remote[Front(q)] = "dir"
    BY <1>3, <1>5, NewParent
<1>9. remote[e] # "absent" /\ (pc[w] = "dir_mkdir" <=> remote[e] = "dir")
    BY <1>3 DEF AskedOf, EnteringPc
<1>10. remote[q] # "absent" => (remote[q] = "dir" <=> remote[e] = "dir")
    BY <1>3, <1>8, <1>9, NothingInTheWay
<1>11. s = "DPL_SUCCESS" /\ Effect(fn[w], p, arg[w].to) = [remote EXCEPT ![q] = remote[e]]
    <2>1. CASE pc[w] = "dir_mkdir"
        <3>1. p = q
            BY <1>1, <1>3, <1>8, <2>1, CallFacts DEF AskedOf, Resolve
        <3>2. HasParent(q) /\ (There(q) => IsDir(q))
            BY <1>8, <1>9, <1>10, <2>1 DEF HasParent, IsDir, There
        <3> HIDE DEF p, q
        <3> QED  BY <1>2, <1>9, <2>1, <3>1, <3>2 DEF StatusOf, Effect
    <2>2. CASE pc[w] = "fcopy"
        <3>1. p = e /\ arg[w].to = q
            BY <1>3, <1>4, <1>5, <2>2 DEF Item, EnteringPc, AskedOf, Resolve
        <3>2. HasParent(q) /\ ~IsDir(q) /\ There(e) /\ ~IsDir(e)
            BY <1>8, <1>9, <1>10, <2>2 DEF HasParent, IsDir, There
        <3> HIDE DEF p, q, e
        <3> QED  BY <1>2, <2>2, <3>1, <3>2 DEF StatusOf, Effect
    <2> QED  BY <2>1, <2>2
<1>12. remote' = [remote EXCEPT ![q] = remote[e]] /\ rc'[w] = "DPL_SUCCESS"
    BY <1>0, <1>11, AnswerFacts, DoneAtOnce
<1>13. e # q
    BY <1>8, Separate
<1>14. remote'[e] = remote[e] /\ remote'[q] = remote[e]
    BY <1>1, <1>8, <1>12, <1>13
<1>15. Moves(remote', before[w], c) /\ Walk(remote', c, Dirs(w), Todo(w), Depth(w), e)
    BY <1>1, <1>3, <1>5, <1>8, <1>9, <1>12, MovesPut, WalkPut
<1>16. Asked(w)'
    <2> HIDE DEF e, q
    <2> QED  BY <1>3, <1>4, <1>6, <1>7, <1>9, <1>12, <1>14 DEF Asked, AskedOf, EnteringPc, Succeeded
<1>17. Going(w)
    <2>1. Depth(w) \in Nat /\ Depth(w) <= Len(stack[w])
        BY <1>1, <1>3 DEF Walk, Depth
    <2>2. \A x \in Path : Under(c.path, x) => x # q
        BY <1>8, Separate
    <2>3. \A x \in Path : Under(c.path, x) => remote'[x] = remote[x]
        BY <1>1, <1>12, <2>2
    <2> QED  BY <1>0, <1>7, <2>1, <2>3, GoingAttempt
<1> QED  BY <1>3, <1>4, <1>6, <1>7, <1>15, <1>16, <1>17 DEF Course

(* A file that has its copy is removed, and so is an empty directory.      *)
LEMMA SmoothGone ==
    ASSUME MadeInv, NEW w \in Worker, Smooth(w), Serving(w), Begun(before[w], call[w]),
           Course(w), DOMAIN before = Worker, before'[w] # NULL, Attempt(w),
           pc[w] \in {"unlink", "dir_rmdir"}
    PROVE  Course(w)' /\ Going(w)
<1>0. BaseInv
    BY DEF MadeInv
<1> DEFINE n == Len(stack[w])
           e == IF pc[w] = "unlink" THEN Item(w) ELSE Src(w)
           c == call[w]
           q == New(e, c)
           p == Resolve(arg[w].path)
           s == StatusOf(fn[w], p, arg[w].to)
           r2 == [remote EXCEPT ![e] = "absent"]
<1>1. /\ call[w] \in Calls /\ call[w].op = "rename" /\ <<pc[w], fn[w]>> \in RequestAt
      /\ n \in Nat /\ n > 0 /\ (pc[w] = "dir_rmdir" => n > 1)
      /\ remote \in [Path -> Kinds]
    BY <1>0, SmoothFacts DEF BelowPc
<1>2. fn[w] = IF pc[w] = "unlink" THEN "dpl_unlink" ELSE "dpl_rmdir"
    BY <1>1 DEF RequestAt
<1>4. ~Emptied(w) /\ rc[w] = NULL /\ UNCHANGED <<pc, arg, call, before>>
    <2>1. rc[w] = NULL
        BY DEF Attempt
    <2>2. UNCHANGED <<pc, arg, call, before>>
        BY AnswerFacts
    <2>3. ~Succeeded(w)
        BY <2>1 DEF Succeeded, Status
    <2> QED  BY <2>1, <2>2, <2>3 DEF Emptied
<1>5. Depth(w) = n
    BY <1>4 DEF Depth, EnteringPc
<1>3. /\ Moves(remote, before[w], c) /\ AskedOf(w, Item(w), New(Item(w), c))
      /\ Walk(remote, c, Dirs(w), Todo(w), n, Item(w))
      /\ \A i \in 1..n : stack[w][i].ret # -1
    BY <1>5 DEF Course, Asked
<1>6. /\ Dirs(w)' = Dirs(w) /\ Todo(w)' = Todo(w) /\ Len(stack'[w]) = n
      /\ \A i \in 1..n : stack'[w][i].ret = stack[w][i].ret
      /\ Src(w)' = Src(w) /\ Dst(w)' = Dst(w) /\ Top(w)'.todo = Top(w).todo
    BY <1>0, SameFrames
<1>7. CASE pc[w] = "unlink"
    <2>1. e # NULL /\ p = e /\ e \in Path /\ Under(c.path, e) /\ remote[q] = before[w][e]
          /\ remote[e] # "dir" /\ remote[e] # "absent" /\ q \in Path /\ Item(w) = e
        <3>1. e # NULL /\ e = Item(w) /\ e = arg[w].path
            BY <1>0, <1>4, <1>7, ItemThere DEF Item, EnteringPc
        <3>2. e \in Path /\ Under(c.path, e)
            BY <1>3, <3>1 DEF Walk
        <3>3. remote[q] = before[w][e] /\ remote[e] # "dir" /\ remote[e] # "absent"
            <4>1. AskedOf(w, e, q) /\ ~Succeeded(w)
                BY <1>3, <1>4, <1>7, <3>1 DEF Succeeded, Status
            <4> HIDE DEF e, q
            <4> QED  BY <1>7, <4>1 DEF AskedOf
        <3>4. p = e
            BY <3>1 DEF Resolve
        <3> QED  BY <1>1, <3>1, <3>2, <3>3, <3>4, CallFacts
    <2>2. s = "DPL_SUCCESS" /\ Effect(fn[w], p, arg[w].to) = r2
        <3>1. There(e) /\ ~IsDir(e)
            BY <2>1 DEF There, IsDir
        <3> HIDE DEF p, e
        <3> QED  BY <1>2, <1>7, <2>1, <3>1 DEF StatusOf, Effect
    <2>3. remote' = r2 /\ rc'[w] = "DPL_SUCCESS"
        BY <1>0, <2>2, AnswerFacts, DoneAtOnce
    <2>4. Moves(r2, before[w], c) /\ Walk(r2, c, Dirs(w), Todo(w), n, e)
        BY <1>1, <1>3, <2>1, MovesGone, WalkGone
    <2>5. q # e
        BY <2>1, Separate
    <2>6. remote'[e] = "absent" /\ remote'[q] = remote[q]
        BY <1>1, <2>1, <2>3, <2>5
    <2>7. Item(w)' = e /\ New(Item(w), call[w])' = q /\ Depth(w)' = n
        BY <1>4, <1>6, <1>7, <2>1 DEF Item, Depth, Emptied, EnteringPc, New, Moved
    <2>8. Asked(w)'
        <3> HIDE DEF e, q
        <3> QED  BY <1>3, <1>4, <1>6, <1>7, <2>1, <2>3, <2>6, <2>7
                 DEF Asked, AskedOf, EnteringPc, Succeeded
    <2>9. Going(w)
        <3>2. \A x \in Path : remote[x] = "absent" => remote'[x] = "absent"
            BY <1>1, <2>3
        <3>3. Depth(w) \in Nat /\ Depth(w) <= Len(stack[w])
            BY <1>1, <1>5
        <3>4. Item(w)' = Item(w) /\ Depth(w)' = Depth(w)
            BY <1>5, <2>1, <2>7
        <3> QED  BY <1>0, <3>2, <3>3, <3>4, GoingAttempt
    <2>10. Walk(remote', c', Dirs(w)', Todo(w)', Depth(w)', Item(w)') /\ Moves(remote', before[w]', c')
        BY <1>4, <1>6, <2>3, <2>4, <2>7
    <2>11. \A i \in 1..Len(stack'[w]) : stack'[w][i].ret # -1
        BY <1>3, <1>6
    <2> QED  BY <2>8, <2>9, <2>10, <2>11 DEF Course
<1>8. CASE pc[w] = "dir_rmdir"
    <2>1. Item(w) = NULL /\ arg[w].path = e /\ Top(w).todo = {} /\ e = Src(w)
        BY <1>3, <1>4, <1>8 DEF Item, EnteringPc, AskedOf
    <2>2. Dirs(w)[n] = e /\ Todo(w)[n] = {}
        BY <1>1, <1>8, <2>1 DEF Dirs, Todo, Src, Top
    <2>3. e \in Path /\ remote[e] = "dir" /\ Names(remote, e) = {}
          /\ Walk(r2, c, Dirs(w), Todo(w), n - 1, e)
        <3>1. Walk(remote, c, Dirs(w), Todo(w), n, NULL) /\ n > 1 /\ Todo(w)[n] = {}
            BY <1>1, <1>3, <1>8, <2>1, <2>2
        <3> HIDE DEF n
        <3>2. /\ Dirs(w)[n] \in Path /\ remote[Dirs(w)[n]] = "dir" /\ Names(remote, Dirs(w)[n]) = {}
              /\ Walk([remote EXCEPT ![Dirs(w)[n]] = "absent"], c, Dirs(w), Todo(w), n - 1, Dirs(w)[n])
            BY <1>1, <3>1, WalkUp
        <3> QED  BY <2>2, <3>2
    <2>4. Under(c.path, e) /\ remote[q] = "dir"
        <3>1. n \in 2..n
            BY <1>1, <1>8
        <3>2. Within(remote, c, Dirs(w), n)
            BY <1>3, <3>1 DEF Walk
        <3> QED  BY <2>2, <3>2 DEF Within
    <2>5. before[w][e] = "dir"
        BY <1>3, <2>3, <2>4 DEF Moves
    <2>6. p = e
        BY <1>1, <2>1, <2>3, CallFacts DEF Resolve
    <2>7. s = "DPL_SUCCESS" /\ Effect(fn[w], p, arg[w].to) = r2
        <3>1. There(e) /\ IsDir(e)
            BY <2>3 DEF There, IsDir
        <3> HIDE DEF p, e
        <3> QED  BY <1>2, <1>8, <2>3, <2>6, <3>1 DEF StatusOf, Effect
    <2>8. remote' = r2 /\ rc'[w] = "DPL_SUCCESS" /\ remote'[e] = "absent"
        <3>1. remote' = r2 /\ rc'[w] = "DPL_SUCCESS"
            BY <1>0, <2>7, AnswerFacts, DoneAtOnce
        <3> QED  BY <1>1, <2>3, <3>1
    <2>9. Moves(r2, before[w], c)
        BY <1>1, <1>3, <2>3, <2>4, <2>5, MovesGone
    <2>10. Emptied(w)' /\ Item(w)' = e /\ Depth(w)' = n - 1
        BY <1>4, <1>6, <1>8, <2>1, <2>8 DEF Item, Depth, Emptied, Succeeded
    <2>11. Asked(w)'
        <3> HIDE DEF e, q
        <3> QED  BY <1>4, <1>6, <1>8, <2>1, <2>8, <2>10
                 DEF Asked, AskedOf, EnteringPc, Succeeded
    <2>12. Going(w)
        <3>2. \A x \in Path : remote[x] = "absent" => remote'[x] = "absent"
            BY <1>1, <2>8
        <3>3. Depth(w) \in Nat /\ Depth(w) <= Len(stack[w]) /\ Depth(w) > 1
            BY <1>1, <1>5, <1>8
        <3>4. /\ Item(w) = NULL /\ Depth(w)' = Depth(w) - 1
              /\ Item(w)' = Dirs(w)[Depth(w)] /\ before[w][Dirs(w)[Depth(w)]] = "dir"
            BY <1>5, <2>1, <2>2, <2>5, <2>10
        <3> QED  BY <1>0, <3>2, <3>3, <3>4, GoingAttempt
    <2>13. Walk(remote', c', Dirs(w)', Todo(w)', Depth(w)', Item(w)') /\ Moves(remote', before[w]', c')
        BY <1>4, <1>6, <2>3, <2>8, <2>9, <2>10
    <2>14. \A i \in 1..Len(stack'[w]) : stack'[w][i].ret # -1
        BY <1>3, <1>6
    <2> QED  BY <2>11, <2>12, <2>13, <2>14 DEF Course
<1> QED  BY <1>7, <1>8

(* Every request of such a rename keeps its course.                        *)
LEMMA CourseAttempt ==
    ASSUME MadeInv, NEW w \in Worker, Smooth(w), Serving(w), Begun(before[w], call[w]),
           Course(w), DOMAIN before = Worker, before'[w] # NULL, Attempt(w)
    PROVE  Course(w)' /\ Going(w)
<1>1. pc[w] \in RenamePc /\ pc[w] # "loop"
    <2>1. BaseInv /\ fn[w] # NULL /\ rc[w] = NULL
        BY DEF MadeInv, Attempt, Answer
    <2> QED  BY <2>1, SmoothFacts DEF ServeInv
<1>2. \/ pc[w] \in {"rename_namei", "entry_namei", "dir_namei", "dir_chdir", "dir_opendir"}
      \/ pc[w] \in {"dir_mkdir", "fcopy"} \/ pc[w] \in {"unlink", "dir_rmdir"}
    BY <1>1 DEF RenamePc, BelowPc
<1> QED  BY <1>2, SmoothLook, SmoothPut, SmoothGone

-----------------------------------------------------------------------------
(* What a handler does with the answer keeps the course too.               *)

(* Each request but a missing new directory's is answered with success.    *)
LEMMA GoodAnswer ==
    ASSUME NEW w \in Worker, Course(w), rc[w] # NULL, pc[w] \notin {"loop", "dir_namei"}
    PROVE  Succeeded(w)
BY DEF Course, Asked, Succeeded

(* What the next request asks of the item the rename is then at.           *)
LEMMA AskedNext ==
    ASSUME NEW w \in Worker, NEW e, NEW q, Item(w)' = e, New(Item(w), call[w])' = q,
           pc'[w] # "loop" =>
               rc'[w] \in {NULL, "DPL_SUCCESS"}
                          \cup IF pc'[w] = "dir_namei" THEN {"DPL_ENOENT"} ELSE {},
           pc'[w] \in {"rename_namei", "entry_namei"} =>
               /\ remote'[e] # "absent"
               /\ rc'[w] = "DPL_SUCCESS" => Top(w)'.type = TypeOf(e)',
           pc'[w] = "rename_namei" => Len(stack'[w]) = 1,
           pc'[w] = "entry_namei" => /\ e = strings'[w][Top(w)'.src_entry]
                                     /\ q = strings'[w][Top(w)'.dst_entry],
           pc'[w] = "fcopy" =>
               /\ remote'[e] \notin {"absent", "dir"} /\ arg'[w].to = q
               /\ rc'[w] = "DPL_SUCCESS" => remote'[q] = remote'[e],
           pc'[w] = "unlink" =>
               /\ remote'[q] = before'[w][e] /\ before'[w][e] # "dir" /\ remote'[e] # "dir"
               /\ remote'[e] = "absent" <=> rc'[w] = "DPL_SUCCESS",
           pc'[w] \in EnteringPc => remote'[e] = "dir" /\ q = Dst(w)',
           pc'[w] \in {"dir_namei", "dir_mkdir"} =>
               /\ arg'[w].path = q
               /\ rc'[w] = "DPL_SUCCESS" => remote'[q] = "dir",
           pc'[w] \in {"dir_chdir", "dir_opendir"} => remote'[q] = "dir",
           pc'[w] = "dir_chdir" =>
               arg'[w].path = e /\ (rc'[w] = "DPL_SUCCESS" => cwd' = e),
           pc'[w] = "dir_opendir" =>
               /\ arg'[w].path = NULL /\ cwd' = e
               /\ rc'[w] = "DPL_SUCCESS" => list'[w] = Names(remote', e),
           pc'[w] = "dir_rmdir" =>
               /\ arg'[w].path = Src(w)' /\ Top(w)'.todo = {}
               /\ rc'[w] = "DPL_SUCCESS" => remote'[e] = "absent"
    PROVE  Asked(w)'
<1>1. AskedOf(w, Item(w), New(Item(w), call[w]))'
    BY Zenon DEF AskedOf, Succeeded, TypeOf, IsDir, EnteringPc, Names
<1> QED  BY <1>1 DEF Asked

(* The rename goes on with a file or a directory, as it is one.            *)
LEMMA CourseDispatch ==
    ASSUME BaseInv, NEW w \in Worker, Smooth(w), Serving(w), Begun(before[w], call[w]),
           Course(w), NEW e, e = Item(w), e # NULL, remote[e] # "absent", Depth(w) = Len(stack[w]),
           NEW a \in Address, NEW b \in Address,
           e = strings[w][a], New(e, call[w]) = strings[w][b],
           \/ remote[e] = "dir" /\ rename_directory(w, a, b)
           \/ remote[e] # "dir" /\ rename_file(w, a, b),
           \/ pc[w] = "rename_namei" /\ Len(stack[w]) = 1 /\ a = OLDPATH /\ b = NEWPATH
           \/ pc[w] = "entry_namei" /\ a = Top(w).src_entry /\ b = Top(w).dst_entry,
           UNCHANGED <<remote, call, ring, before>>
    PROVE  Course(w)' /\ Going(w)
<1> DEFINE c == call[w]
           q == New(e, c)
           n == Len(stack[w])
<1>1. /\ ShapeInv /\ stack[w] \in Seq(Frames) /\ n \in Nat /\ n > 0
      /\ stack \in [Worker -> Seq(Frames)] /\ arg \in [Worker -> [path : String, to : String] \cup {NULL}]
      /\ pc \in [Worker -> Pc \cup {NULL}] /\ rc \in [Worker -> Status \cup {NULL}]
    BY SmoothFacts DEF ShapeInv, RetryTypeOK
<1>2. /\ Moves(remote, before[w], c) /\ Walk(remote, c, Dirs(w), Todo(w), n, e)
      /\ \A i \in 1..n : stack[w][i].ret # -1
    BY DEF Course
<1>3. UNCHANGED <<remote, call, strings, current, before>>
    BY DEF ring
<1>4. CASE remote[e] = "dir" /\ rename_directory(w, a, b)
    <2>1. /\ Frame(a, b).src = a /\ Frame(a, b).dst = b /\ Frame(a, b).todo = {}
          /\ Frame(a, b).ret = 0 /\ Frame(a, b) \in Frames
        BY NewFrame DEF Frame
    <2>2. stack' = [stack EXCEPT ![w] = Append(stack[w], Frame(a, b))]
          /\ Request(w, "dpl_namei", strings[w][b], NULL, "dir_namei")
        BY <1>4 DEF rename_directory
    <2>3. stack'[w] = Append(stack[w], Frame(a, b))
        BY <1>1, <2>2
    <2>4. Len(stack'[w]) = n + 1 /\ stack'[w][n + 1] = Frame(a, b)
          /\ \A i \in 1..n : stack'[w][i] = stack[w][i]
        BY <1>1, <2>1, <2>3
    <2>5. pc'[w] = "dir_namei" /\ rc'[w] = NULL /\ arg'[w] = [path |-> q, to |-> NULL]
        BY <1>1, <2>2 DEF Request, Begin
    <2>6. Top(w)' = Frame(a, b) /\ Src(w)' = e /\ Dst(w)' = q
        BY <1>3, <2>1, <2>4 DEF Top, Src, Dst
    <2>7. Item(w)' = e /\ New(Item(w), call[w])' = q /\ Depth(w)' = n
        <3>1. Item(w)' = e
            BY <2>5, <2>6 DEF Item, EnteringPc
        <3>2. Depth(w)' = n + 1 - 1
            BY <2>4, <2>5 DEF Depth, EnteringPc
        <3>3. New(Item(w), call[w])' = New(Item(w)', c)
            BY <1>3 DEF New, Moved
        <3> QED  BY <1>1, <3>1, <3>2, <3>3
    <2>8. \A i \in 1..n : Dirs(w)'[i] = Dirs(w)[i] /\ Todo(w)'[i] = Todo(w)[i]
        <3>1. \A i \in 1..n : i \in 1..n + 1
            BY <1>1
        <3>2. Dirs(w)' = [i \in 1..n + 1 |-> strings[w][stack'[w][i].src]]
              /\ Todo(w)' = [i \in 1..n + 1 |-> stack'[w][i].todo]
            BY <1>3, <2>4 DEF Dirs, Todo
        <3>3. \A i \in 1..n : Dirs(w)[i] = strings[w][stack[w][i].src] /\ Todo(w)[i] = stack[w][i].todo
            BY DEF Dirs, Todo
        <3> SUFFICES ASSUME NEW i \in 1..n
                     PROVE  Dirs(w)'[i] = Dirs(w)[i] /\ Todo(w)'[i] = Todo(w)[i]
            OBVIOUS
        <3>4. i \in 1..n + 1 /\ stack'[w][i] = stack[w][i]
            BY <2>4, <3>1
        <3>5. Dirs(w)'[i] = strings[w][stack'[w][i].src] /\ Todo(w)'[i] = stack'[w][i].todo
            BY <3>2, <3>4
        <3> QED  BY <3>3, <3>4, <3>5
    <2>9. Walk(remote, c, Dirs(w)', Todo(w)', n, e)
        <3>1. \A i \in 2..n : i \in 1..n
            BY <1>1
        <3>2. \A i \in 2..n : Dirs(w)'[i] = Dirs(w)[i] /\ Todo(w)'[i] = Todo(w)[i]
            BY <2>8, <3>1
        <3>3. Walk(remote, c, Dirs(w), Todo(w), n, e)
            BY <1>2
        <3> HIDE NamespaceAssumption, RetryAssumption DEF n, c
        <3> QED  BY <3>2, <3>3, WalkSame
    <2>10. \A i \in 1..n + 1 : stack'[w][i].ret # -1
        <3>1. \A i \in 1..n : stack'[w][i] = stack[w][i]
            BY <2>4
        <3>2. \A i \in 1..n + 1 : i \in 1..n \/ i = n + 1
            BY <1>1
        <3>3. stack'[w][n + 1].ret # -1
            BY <2>1, <2>4
        <3> HIDE DEF n
        <3> QED  BY <1>2, <3>1, <3>2, <3>3
    <2>11. Asked(w)'
        <3> HIDE DEF q
        <3> QED  BY <1>3, <1>4, <2>5, <2>6, <2>7, AskedNext DEF EnteringPc, Status
    <2>12. Going(w)
        <3>1. \A i \in 1..n : stack'[w][i].src = stack[w][i].src /\ stack'[w][i].dst = stack[w][i].dst
            BY <2>4
        <3>2. \A i \in 2..n : Dirs(w)'[i] = Dirs(w)[i]
            BY <1>1, <2>8
        <3>3. \A i \in 1..Len(stack'[w]) :
                \/ /\ i <= n /\ Dirs(w)'[i] = Dirs(w)[i]
                   /\ stack'[w][i].src = stack[w][i].src /\ stack'[w][i].dst = stack[w][i].dst
                \/ /\ i = n + 1 /\ remote[e] = "dir" /\ Item(w)' = e
                   /\ IF pc[w] = "rename_namei"
                      THEN n = 1 /\ stack'[w][i].src = OLDPATH /\ stack'[w][i].dst = NEWPATH
                      ELSE /\ pc[w] = "entry_namei" /\ stack'[w][i].src = Top(w).src_entry
                           /\ stack'[w][i].dst = Top(w).dst_entry
            <4> SUFFICES ASSUME NEW i \in 1..n + 1
                         PROVE  \/ /\ i <= n /\ Dirs(w)'[i] = Dirs(w)[i]
                                   /\ stack'[w][i].src = stack[w][i].src
                                   /\ stack'[w][i].dst = stack[w][i].dst
                                \/ /\ i = n + 1 /\ remote[e] = "dir" /\ Item(w)' = e
                                   /\ IF pc[w] = "rename_namei"
                                      THEN n = 1 /\ stack'[w][i].src = OLDPATH /\ stack'[w][i].dst = NEWPATH
                                      ELSE /\ pc[w] = "entry_namei" /\ stack'[w][i].src = Top(w).src_entry
                                           /\ stack'[w][i].dst = Top(w).dst_entry
                BY <2>4
            <4>1. CASE i = n + 1
                <5>1. stack'[w][i].src = a /\ stack'[w][i].dst = b
                    BY <2>1, <2>4, <4>1
                <5> HIDE DEF n
                <5> QED  BY <1>4, <2>7, <4>1, <5>1 DEF n
            <4>2. CASE i # n + 1
                <5>1. i \in 1..n /\ i <= n
                    BY <1>1, <4>2
                <5> HIDE DEF n
                <5> QED  BY <2>8, <3>1, <5>1
            <4> QED  BY <4>1, <4>2
        <3>4. UNCHANGED <<remote, current>> /\ pc'[w] # "entry_namei" /\ Item(w) = e /\ Depth(w) = n
            BY <1>3, <2>5
        <3> HIDE DEF n
        <3> QED  BY <2>7, <3>2, <3>3, <3>4 DEF Going, n
    <2> QED  BY <1>2, <1>3, <2>4, <2>7, <2>9, <2>10, <2>11, <2>12 DEF Course
<1>5. CASE remote[e] # "dir" /\ rename_file(w, a, b)
    <2>1. stack' = stack /\ Request(w, "dpl_fcopy", e, q, "fcopy")
        BY <1>5 DEF rename_file
    <2>2. pc'[w] = "fcopy" /\ rc'[w] = NULL /\ arg'[w] = [path |-> e, to |-> q]
        BY <1>1, <2>1 DEF Request, Begin
    <2>3. Item(w)' = e /\ New(Item(w), call[w])' = q /\ Depth(w)' = n
        <3>0. ~Emptied(w)'
            BY <2>2 DEF Emptied
        <3>1. Item(w)' = e
            BY <2>2, <3>0 DEF Item, EnteringPc
        <3>2. Depth(w)' = n
            BY <2>1, <2>2, <3>0 DEF Depth, EnteringPc
        <3>3. New(Item(w), call[w])' = New(Item(w)', c)
            BY <1>3 DEF New, Moved
        <3> QED  BY <1>1, <3>1, <3>2, <3>3
    <2>4. Dirs(w)' = Dirs(w) /\ Todo(w)' = Todo(w)
        BY <1>3, <2>1 DEF Dirs, Todo
    <2>5. Asked(w)'
        <3> HIDE DEF q
        <3> QED  BY <1>3, <1>5, <2>2, <2>3, AskedNext DEF EnteringPc, Status
    <2>6. Going(w)
        <3> HIDE DEF n
        <3> QED  BY <1>1, <1>3, <2>1, <2>2, <2>3, <2>4 DEF Going, n
    <2> QED  BY <1>2, <1>3, <2>1, <2>3, <2>4, <2>5, <2>6 DEF Course
<1> QED  BY <1>4, <1>5

(* What was looked up goes on.                                             *)
LEMMA CourseLooked ==
    ASSUME BaseInv, NEW w \in Worker, Smooth(w), Serving(w), Begun(before[w], call[w]),
           Course(w), rename_dispatch(w) \/ entry_rename(w)
    PROVE  Course(w)' /\ Going(w)
<1> DEFINE e == Item(w)
           c == call[w]
<1>1. pc[w] \in {"rename_namei", "entry_namei"} /\ rc[w] # NULL
    BY DEF rename_dispatch, entry_rename, Waiting
<1>2. Succeeded(w)
    BY <1>1, GoodAnswer
<1>3. AskedOf(w, e, New(e, c)) /\ Walk(remote, c, Dirs(w), Todo(w), Depth(w), e)
    BY DEF Course, Asked
<1>4. /\ e # NULL /\ c \in Calls /\ c.op = "rename" /\ Top(w) \in Frames
      /\ ReachInv(w) /\ stack[w] # << >>
    BY <1>1, ItemThere, SmoothFacts
<1>5. /\ remote[e] # "absent" /\ Top(w).type = TypeOf(e) /\ Depth(w) = Len(stack[w])
      /\ e \in Path
    BY <1>1, <1>2, <1>3, <1>4 DEF AskedOf, Depth, EnteringPc, Emptied, Walk
<1>6. Top(w).type = (IF remote[e] = "dir" THEN "DPL_FTYPE_DIR" ELSE "DPL_FTYPE_REG")
      /\ Tested(Top(w).type) = {Top(w).type}
    BY <1>5 DEF TypeOf, IsDir, Tested
<1>7. CASE rename_dispatch(w)
    <2>1. pc[w] = "rename_namei" /\ Len(stack[w]) = 1
        BY <1>3, <1>7 DEF rename_dispatch, Waiting, AskedOf
    <2>2. e = c.path /\ New(e, c) = c.to
        BY <1>3, <1>4, <1>5, <2>1, CallFacts DEF Walk
    <2>3. strings[w][OLDPATH] = e /\ strings[w][NEWPATH] = New(e, c)
        BY <1>4, <2>2 DEF ReachInv
    <2>4. /\ \/ remote[e] = "dir" /\ rename_directory(w, OLDPATH, NEWPATH)
             \/ remote[e] # "dir" /\ rename_file(w, OLDPATH, NEWPATH)
          /\ UNCHANGED <<remote, call, ring, before>>
        <3> HIDE DEF e
        <3> QED  BY <1>6, <1>7 DEF rename_dispatch, tree
    <2> HIDE DEF e
    <2> QED  BY <1>4, <1>5, <2>1, <2>3, <2>4, CourseDispatch, OwnAddresses DEF e
<1>8. CASE entry_rename(w)
    <2>1. pc[w] = "entry_namei" /\ rc[w] = "DPL_SUCCESS"
        BY <1>2, <1>8 DEF entry_rename, Waiting, Succeeded
    <2> DEFINE a == Top(w).src_entry
               b == Top(w).dst_entry
    <2>2. e = strings[w][a] /\ New(e, c) = strings[w][b] /\ a \in Address /\ b \in Address
        BY <1>3, <1>4, <2>1 DEF AskedOf, Frames
    <2>4. /\ \/ remote[e] = "dir" /\ rename_directory(w, a, b)
             \/ remote[e] # "dir" /\ rename_file(w, a, b)
          /\ UNCHANGED <<remote, call, ring, before>>
        <3> HIDE DEF e
        <3> QED  BY <1>6, <1>8, <2>1 DEF entry_rename, tree
    <2> HIDE DEF a, b, e
    <2> QED  BY <1>4, <1>5, <2>1, <2>2, <2>4, CourseDispatch DEF a, b, e
<1> QED  BY <1>7, <1>8

(* The handlers that send one more request on what the rename is at.       *)
LEMMA CourseRequest ==
    ASSUME BaseInv, NEW w \in Worker, Smooth(w), Serving(w), Begun(before[w], call[w]),
           Course(w),
           \/ rename_unlink(w) \/ dir_mkdir(w) \/ dir_chdir(w) \/ dir_opendir(w)
           \/ dir_rmdir(w)
    PROVE  Course(w)' /\ Going(w)
<1> DEFINE e == Item(w)
           c == call[w]
           q == New(e, c)
           n == Len(stack[w])
<1>1. /\ ShapeInv /\ stack[w] \in Seq(Frames) /\ n \in Nat /\ n > 0 /\ n \in 1..n
      /\ arg \in [Worker -> [path : String, to : String] \cup {NULL}]
      /\ pc \in [Worker -> Pc \cup {NULL}] /\ rc \in [Worker -> Status \cup {NULL}]
      /\ c \in Calls /\ c.op = "rename"
    BY SmoothFacts DEF ShapeInv, RetryTypeOK
<1>2. /\ Moves(remote, before[w], c) /\ Walk(remote, c, Dirs(w), Todo(w), Depth(w), e)
      /\ \A i \in 1..n : stack[w][i].ret # -1
      /\ AskedOf(w, e, q)
    BY DEF Course, Asked
<1>3. pc[w] \notin {"loop", "dir_namei"} /\ rc[w] # NULL => rc[w] = "DPL_SUCCESS"
    BY GoodAnswer DEF Succeeded
<1>4. pc[w] = "dir_namei" /\ rc[w] # NULL => rc[w] \in {"DPL_SUCCESS", "DPL_ENOENT"}
    BY DEF Course, Asked
<1>5. ShapeInv /\ NULL \notin Status
    BY <1>1
<1> HIDE NamespaceAssumption, RetryAssumption
<1>6. ASSUME UNCHANGED <<remote, cwd, call, stack, strings, current, before>>,
             Item(w)' = e, Depth(w)' = Depth(w), Asked(w)', pc'[w] # "entry_namei"
      PROVE  Course(w)' /\ Going(w)
    <2>1. Dirs(w)' = Dirs(w) /\ Todo(w)' = Todo(w)
        BY <1>6 DEF Dirs, Todo
    <2>2. Going(w)
        BY <1>1, <1>6, <2>1 DEF Going
    <2> HIDE DEF e
    <2> QED  BY <1>2, <1>6, <2>1, <2>2 DEF Course
<1>7. ASSUME UNCHANGED <<call, stack, strings>>
      PROVE  Src(w)' = Src(w) /\ Dst(w)' = Dst(w) /\ Top(w)' = Top(w)
    BY <1>7 DEF Src, Dst, Top
<1>8. ASSUME UNCHANGED call, Item(w)' = e PROVE New(Item(w), call[w])' = q
    BY <1>8 DEF New, Moved
<1>9. CASE rename_unlink(w)
    <2>1. pc[w] = "fcopy" /\ rc[w] = "DPL_SUCCESS"
        BY <1>3, <1>9 DEF rename_unlink, Waiting
    <2>2. Request(w, "dpl_unlink", arg[w].path, NULL, "unlink")
          /\ UNCHANGED <<remote, cwd, call, stack, strings, current, before>>
        BY <1>9, <2>1 DEF rename_unlink, Succeeded, tree, ring
    <2>3. pc'[w] = "unlink" /\ rc'[w] = NULL /\ arg'[w].path = arg[w].path
        BY <1>1, <2>2 DEF Request, Begin
    <2>4. Item(w)' = e /\ Depth(w)' = Depth(w) /\ e = arg[w].path
        BY <2>1, <2>2, <2>3 DEF Item, Depth, EnteringPc, Emptied
    <2>5. remote[e] \notin {"absent", "dir"} /\ remote[q] = remote[e] /\ e # NULL
        BY <1>2, <2>1, ItemThere DEF AskedOf, Succeeded
    <2>6. e \in Path /\ Under(c.path, e)
        BY <1>2, <2>5 DEF Walk
    <2>7. remote[e] = before[w][e]
        BY <1>2, <2>5, <2>6 DEF Moves
    <2>8. New(Item(w), call[w])' = q
        BY <1>8, <2>2, <2>4
    <2>9. Asked(w)'
        <3> HIDE DEF e, q
        <3> QED  BY <2>2, <2>3, <2>4, <2>5, <2>7, <2>8, <1>5, AskedNext DEF EnteringPc, Status
    <2> QED  BY <1>6, <2>2, <2>3, <2>4, <2>9
<1>10. ASSUME pc[w] \in EnteringPc,
              UNCHANGED <<remote, cwd, call, stack, strings, current, before>>, rc'[w] = NULL,
              \/ /\ pc'[w] = "dir_mkdir" /\ arg'[w].path = Dst(w)
              \/ /\ pc'[w] = "dir_chdir" /\ arg'[w].path = Src(w) /\ remote[q] = "dir"
              \/ /\ pc'[w] = "dir_opendir" /\ arg'[w].path = NULL /\ remote[q] = "dir" /\ cwd = e
       PROVE  Course(w)' /\ Going(w)
    <2>1. pc'[w] \in EnteringPc /\ Src(w)' = Src(w) /\ Dst(w)' = Dst(w)
        BY <1>7, <1>10 DEF EnteringPc
    <2>2. Item(w)' = e /\ Depth(w)' = Depth(w) /\ e = Src(w)
        BY <1>10, <2>1 DEF Item, Depth
    <2>3. remote[e] = "dir" /\ q = Dst(w)
        BY <1>2, <1>10 DEF AskedOf
    <2>4. New(Item(w), call[w])' = q
        BY <1>8, <1>10, <2>2
    <2>5. Asked(w)'
        <3> HIDE DEF e, q
        <3> QED  BY <1>10, <2>1, <2>2, <2>3, <2>4, <1>5, AskedNext DEF EnteringPc, Status
    <2> QED  BY <1>6, <1>10, <2>1, <2>2, <2>5 DEF EnteringPc
<1>11. CASE dir_mkdir(w)
    <2>1. pc[w] = "dir_namei" /\ rc[w] \in {"DPL_SUCCESS", "DPL_ENOENT"} /\ pc[w] \in EnteringPc
        BY <1>4, <1>11 DEF dir_mkdir, Waiting, EnteringPc
    <2>2. CASE rc[w] = "DPL_SUCCESS"
        <3>1. Request(w, "dpl_chdir", Src(w), NULL, "dir_chdir")
              /\ UNCHANGED <<remote, cwd, call, stack, strings, current, before>>
            BY <1>11, <2>2 DEF dir_mkdir, Succeeded, tree, ring
        <3>2. remote[q] = "dir"
            BY <1>2, <2>1, <2>2 DEF AskedOf, Succeeded
        <3>3. pc'[w] = "dir_chdir" /\ rc'[w] = NULL /\ arg'[w].path = Src(w)
            BY <1>1, <3>1 DEF Request, Begin
        <3> QED  BY <1>10, <2>1, <3>1, <3>2, <3>3
    <2>3. CASE rc[w] = "DPL_ENOENT"
        <3>1. Request(w, "dpl_mkdir", Dst(w), NULL, "dir_mkdir")
              /\ UNCHANGED <<remote, cwd, call, stack, strings, current, before>>
            BY <1>11, <2>3 DEF dir_mkdir, Succeeded, tree, ring
        <3>3. pc'[w] = "dir_mkdir" /\ rc'[w] = NULL /\ arg'[w].path = Dst(w)
            BY <1>1, <3>1 DEF Request, Begin
        <3> QED  BY <1>10, <2>1, <3>1, <3>3
    <2> QED  BY <2>1, <2>2, <2>3
<1>12. CASE dir_chdir(w)
    <2>1. pc[w] = "dir_mkdir" /\ rc[w] = "DPL_SUCCESS" /\ pc[w] \in EnteringPc
        BY <1>3, <1>12 DEF dir_chdir, Waiting, EnteringPc
    <2>2. Request(w, "dpl_chdir", Src(w), NULL, "dir_chdir")
          /\ UNCHANGED <<remote, cwd, call, stack, strings, current, before>>
        BY <1>12, <2>1 DEF dir_chdir, MkdirRet, tree, ring
    <2>3. remote[q] = "dir"
        BY <1>2, <2>1 DEF AskedOf, Succeeded
    <2>4. pc'[w] = "dir_chdir" /\ rc'[w] = NULL /\ arg'[w].path = Src(w)
        BY <1>1, <2>2 DEF Request, Begin
    <2> QED  BY <1>10, <2>1, <2>2, <2>3, <2>4
<1>13. CASE dir_opendir(w)
    <2>1. pc[w] = "dir_chdir" /\ rc[w] = "DPL_SUCCESS" /\ pc[w] \in EnteringPc
        BY <1>3, <1>13 DEF dir_opendir, Waiting, EnteringPc
    <2>2. Request(w, "dpl_opendir", NULL, NULL, "dir_opendir")
          /\ UNCHANGED <<remote, cwd, call, stack, strings, current, before>>
        BY <1>13, <2>1 DEF dir_opendir, Succeeded, tree, ring
    <2>3. remote[q] = "dir" /\ cwd = e
        BY <1>2, <2>1 DEF AskedOf, Succeeded
    <2>4. pc'[w] = "dir_opendir" /\ rc'[w] = NULL /\ arg'[w].path = NULL
        BY <1>1, <2>2 DEF Request, Begin
    <2> QED  BY <1>10, <2>1, <2>2, <2>3, <2>4
<1>14. CASE dir_rmdir(w)
    <2>1. pc[w] = "loop" /\ Top(w).todo = {} /\ Top(w).ret # -1
        BY <1>1, <1>2, <1>14 DEF dir_rmdir, Waiting, Top
    <2>2. Request(w, "dpl_rmdir", Src(w), NULL, "dir_rmdir")
          /\ UNCHANGED <<remote, cwd, call, stack, strings, current, before>>
        BY <1>14, <2>1 DEF dir_rmdir, tree, ring
    <2>3. pc'[w] = "dir_rmdir" /\ rc'[w] = NULL /\ arg'[w].path = Src(w)
        BY <1>1, <2>2 DEF Request, Begin
    <2>4. Item(w)' = e /\ Depth(w)' = Depth(w)
        <3>1. ~Emptied(w) /\ ~Emptied(w)'
            BY <1>5, <2>1, <2>3 DEF Emptied, Succeeded, Status
        <3> QED  BY <2>1, <2>2, <2>3, <3>1 DEF Item, Depth, EnteringPc
    <2>5. Src(w)' = Src(w) /\ Top(w)' = Top(w)
        BY <1>7, <2>2
    <2>6. Asked(w)'
        <3>1. New(Item(w), call[w])' = q
            BY <1>8, <2>2, <2>4
        <3> HIDE DEF e, q
        <3> QED  BY <2>1, <2>3, <2>4, <2>5, <3>1, <1>5, AskedNext DEF EnteringPc, Status
    <2> QED  BY <1>6, <2>2, <2>3, <2>4, <2>6
<1> QED  BY <1>9, <1>11, <1>12, <1>13, <1>14

(* A directory is entered when it has been listed.                         *)
LEMMA CourseListed ==
    ASSUME BaseInv, NEW w \in Worker, Smooth(w), Serving(w), Begun(before[w], call[w]),
           Course(w), dir_list(w)
    PROVE  Course(w)' /\ Going(w)
<1> DEFINE e == Item(w)
           c == call[w]
           n == Len(stack[w])
<1>1. /\ ShapeInv /\ stack[w] \in Seq(Frames) /\ n \in Nat /\ n > 1 /\ n \in 1..n
      /\ stack \in [Worker -> Seq(Frames)] /\ pc \in [Worker -> Pc \cup {NULL}]
      /\ c \in Calls /\ c.op = "rename" /\ pc[w] = "dir_opendir" /\ rc[w] # NULL
    BY SmoothFacts DEF ShapeInv, dir_list, Waiting, BelowPc
<1>2. /\ Moves(remote, before[w], c) /\ Walk(remote, c, Dirs(w), Todo(w), n - 1, e)
      /\ \A i \in 1..n : stack[w][i].ret # -1
      /\ AskedOf(w, e, New(e, c)) /\ e = Src(w) /\ e # NULL
    BY <1>1, ItemThere DEF Course, Asked, Depth, Item, EnteringPc
<1>3. Succeeded(w)
    BY <1>1, GoodAnswer
<1>4. remote[e] = "dir" /\ remote[New(e, c)] = "dir" /\ list[w] = Names(remote, e)
    BY <1>1, <1>2, <1>3 DEF AskedOf, EnteringPc
<1>5. /\ stack' = [stack EXCEPT ![w][n].todo = list[w]] /\ pc'[w] = "loop"
      /\ UNCHANGED <<remote, call, strings, current, before>>
    BY <1>1, <1>3 DEF dir_list, tree, ring
<1>6. stack'[w] = [stack[w] EXCEPT ![n] = [stack[w][n] EXCEPT !.todo = list[w]]]
    BY <1>1, <1>5
<1>7. /\ Len(stack'[w]) = n
      /\ \A i \in 1..n : stack'[w][i] = IF i = n THEN [stack[w][n] EXCEPT !.todo = list[w]]
                                        ELSE stack[w][i]
    BY <1>1, <1>6
<1>8. \A i \in 1..n : stack[w][i] \in Frames
    BY <1>1
<1>9. /\ \A i \in 1..n : /\ stack'[w][i].src = stack[w][i].src
                         /\ stack'[w][i].dst = stack[w][i].dst
                         /\ stack'[w][i].ret = stack[w][i].ret
      /\ \A i \in 1..n : i # n => stack'[w][i].todo = stack[w][i].todo
      /\ stack'[w][n].todo = list[w]
    <2>1. LET f == [stack[w][n] EXCEPT !.todo = list[w]] IN
          /\ f.src = stack[w][n].src /\ f.dst = stack[w][n].dst
          /\ f.ret = stack[w][n].ret /\ f.todo = list[w]
        BY <1>1, <1>8 DEF Frames
    <2> HIDE DEF n
    <2> QED  BY <1>1, <1>7, <2>1
<1>10. /\ Dirs(w)' = Dirs(w) /\ \A i \in 2..n - 1 : Todo(w)'[i] = Todo(w)[i]
       /\ Dirs(w)'[n] = e /\ Todo(w)'[n] = Names(remote, e)
    <2>1. Dirs(w)' = Dirs(w)
        BY <1>5, <1>7, <1>9 DEF Dirs
    <2>2. Dirs(w)[n] = Src(w)
        BY <1>1 DEF Dirs, Src, Top
    <2>3. Todo(w)' = [i \in 1..n |-> stack'[w][i].todo]
        BY <1>7 DEF Todo
    <2>4. \A i \in 2..n - 1 : i \in 1..n /\ i # n
        BY <1>1
    <2>5. \A i \in 1..n : Todo(w)[i] = stack[w][i].todo
        BY DEF Todo
    <2> HIDE DEF e, n
    <2> QED  BY <1>1, <1>2, <1>4, <1>9, <2>1, <2>2, <2>3, <2>4, <2>5
<1>11. Walk(remote, c, Dirs(w)', Todo(w)', n, NULL)
    <2> DEFINE k == n - 1
               dirs2 == Dirs(w)'
               todo2 == Todo(w)'
    <2>1. k + 1 = n
        BY <1>1
    <2>2. Walk(remote, c, Dirs(w), Todo(w), k, e)
        BY <1>2
    <2>3. /\ \A i \in 2..k : dirs2[i] = Dirs(w)[i] /\ todo2[i] = Todo(w)[i]
          /\ dirs2[k + 1] = e /\ todo2[k + 1] = Names(remote, e)
        <3> HIDE DEF e
        <3> QED  BY <1>10, <2>1
    <2> HIDE DEF k, e, dirs2, todo2
    <2>4. Walk(remote, c, dirs2, todo2, k + 1, NULL)
        BY <1>1, <1>2, <1>4, <2>2, <2>3, WalkDown
    <2> QED  BY <2>1, <2>4 DEF dirs2, todo2
<1>12. Item(w)' = NULL /\ Depth(w)' = n
    BY <1>5, <1>7 DEF Item, Depth, EnteringPc, Emptied
<1>13. Asked(w)'
    BY <1>5, AskedNext DEF EnteringPc
<1>14. Going(w)
    <2>1. Depth(w) = n - 1
        BY <1>1 DEF Depth, EnteringPc
    <2> HIDE DEF n
    <2> QED  BY <1>1, <1>5, <1>7, <1>9, <1>10, <1>12, <2>1 DEF Going, n
<1> QED  BY <1>2, <1>5, <1>7, <1>9, <1>11, <1>12, <1>13, <1>14 DEF Course

(* The handler that takes the next entry prints its two paths over none of *)
(* those in use.                                                           *)
LEMMA EntryMoves ==
    ASSUME BaseInv, NEW w \in Worker, Smooth(w), Serving(w), Begun(before[w], call[w]),
           Course(w), RingSuffices, entry_namei(w)
    PROVE  LET n == Len(stack[w])
               a == tmpstr_new(current[w])
               b == tmpstr_new(a)
           IN  \E m \in Todo(w)[n] :
                 LET y == Append(Dirs(w)[n], m) IN
                 /\ n \in Nat /\ n > 1 /\ Depth(w) = n /\ Item(w) = NULL
                 /\ UNCHANGED <<remote, call, before>>
                 /\ pc'[w] = "entry_namei" /\ rc'[w] = NULL /\ arg'[w].path = y
                 /\ Item(w)' = y /\ Depth(w)' = n /\ Len(stack'[w]) = n
                 /\ \A i \in 1..n : /\ stack'[w][i].src = stack[w][i].src
                                    /\ stack'[w][i].dst = stack[w][i].dst
                                    /\ stack'[w][i].ret = stack[w][i].ret
                 /\ Dirs(w)' = Dirs(w)
                 /\ \A i \in 2..n : Todo(w)'[i] = IF i = n THEN Todo(w)[n] \ {m} ELSE Todo(w)[i]
                 /\ Top(w)'.src_entry = a /\ Top(w)'.dst_entry = b
                 /\ current'[w] = b /\ strings'[w][a] = y
<1> DEFINE c == call[w]
           n == Len(stack[w])
<1>1. /\ ShapeInv /\ Own(w) /\ stack[w] \in Seq(Frames) /\ n \in Nat /\ n > 1 /\ n \in 1..n
      /\ stack \in [Worker -> Seq(Frames)] /\ pc \in [Worker -> Pc \cup {NULL}]
      /\ strings \in [Worker -> [Address -> String]] /\ current[w] \in 0..TMPSTR_NB - 1
      /\ arg \in [Worker -> [path : String, to : String] \cup {NULL}]
      /\ rc \in [Worker -> Status \cup {NULL}]
      /\ c \in Calls /\ c.op = "rename" /\ pc[w] = "loop" /\ call[w] # NULL
    BY SmoothFacts DEF ShapeInv, RetryTypeOK, entry_namei, Waiting, BelowPc
<1>2. /\ Moves(remote, before[w], c) /\ Walk(remote, c, Dirs(w), Todo(w), n, NULL)
      /\ \A i \in 1..n : stack[w][i].ret # -1
    BY <1>1 DEF Course, Depth, Item, EnteringPc, Emptied
<1>3. PICK m \in Top(w).todo : NextEntry(w, m)
                               /\ Request(w, "dpl_namei", Append(Src(w), m), NULL, "entry_namei")
    BY DEF entry_namei
<1>4. UNCHANGED <<remote, call, before>>
    BY DEF entry_namei, tree
<1> DEFINE a == tmpstr_new(current[w])
           b == tmpstr_new(a)
           y == Append(Src(w), m)
           f == [Top(w) EXCEPT !.todo = @ \ {m}, !.src_entry = a, !.dst_entry = b]
           d == IF Top(w).dst = a THEN y ELSE Dst(w)
<1>5. /\ a \in Address /\ b \in Address /\ a # b /\ f \in Frames /\ Top(w) \in Frames
      /\ strings' = [strings EXCEPT ![w] = [strings[w] EXCEPT ![a] = y, ![b] = Append(d, m)]]
      /\ stack' = [stack EXCEPT ![w] = [stack[w] EXCEPT ![n] = f]]
    <2>1. ServeInv(w) /\ ReachInv(w) /\ pc[w] \in BelowPc
        BY <1>1 DEF Own, BelowPc
    <2>2. a \in 0..TMPSTR_NB - 1 /\ b \in 0..TMPSTR_NB - 1
        BY <1>1, RingFacts
    <2> QED  BY <1>1, <1>3, <2>1, <2>2, EntryFacts, BelowFacts, RingFacts
<1>6. /\ Len(stack'[w]) = n /\ stack'[w][n] = f
      /\ \A i \in 1..n : i # n => stack'[w][i] = stack[w][i]
    <2> HIDE DEF f
    <2>1. stack'[w] = [stack[w] EXCEPT ![Len(stack[w])] = f]
        BY <1>1, <1>5
    <2>2. stack[w] # << >>
        BY <1>1
    <2> QED  BY <1>1, <1>5, <2>1, <2>2, TopFacts
<1>7. f.src = Top(w).src /\ f.dst = Top(w).dst /\ f.ret = Top(w).ret /\ f.todo = Top(w).todo \ {m} /\ f.src_entry = a
      /\ f.dst_entry = b
    BY <1>5 DEF Frames
<1>8. /\ strings'[w][a] = y
      /\ \A x \in Address \ {a, b} : strings'[w][x] = strings[w][x]
    BY <1>1, <1>5
<1>9. \A i \in 1..n : stack[w][i].src \in Address /\ stack[w][i].src \notin {a, b}
    <2>1. InUse(w) \cap {a, b} = {}
        BY <1>1, <1>3 DEF RingSuffices
    <2>2. \A i \in 1..n : stack[w][i] \in Frames
        BY <1>1
    <2>3. \A i \in 1..n : stack[w][i].src \in InUse(w)
        BY <1>1, <2>2 DEF InUse, Frames
    <2>4. \A i \in 1..n : stack[w][i].src \in Address
        BY <2>2 DEF Frames
    <2> HIDE DEF a, b, n
    <2> QED  BY <2>1, <2>3, <2>4
<1>10. \A i \in 1..n : /\ stack'[w][i].src = stack[w][i].src /\ stack'[w][i].ret = stack[w][i].ret
                       /\ stack'[w][i].dst = stack[w][i].dst
                       /\ stack'[w][i].todo = IF i = n THEN stack[w][n].todo \ {m}
                                              ELSE stack[w][i].todo
    <2>1. Top(w) = stack[w][n]
        BY DEF Top
    <2> HIDE DEF f, n
    <2> QED  BY <1>1, <1>6, <1>7, <2>1
<1>11. Dirs(w)' = Dirs(w) /\ Dirs(w)[n] = Src(w) /\ Todo(w)[n] = Top(w).todo
       /\ \A i \in 2..n : Todo(w)'[i] = IF i = n THEN Todo(w)[n] \ {m} ELSE Todo(w)[i]
    <2>1. \A i \in 1..n : strings'[w][stack'[w][i].src] = strings[w][stack[w][i].src]
        BY <1>8, <1>9, <1>10
    <2>2. Dirs(w)' = [i \in 1..n |-> strings'[w][stack'[w][i].src]]
          /\ Todo(w)' = [i \in 1..n |-> stack'[w][i].todo]
        BY <1>6 DEF Dirs, Todo
    <2>3. /\ Dirs(w) = [i \in 1..n |-> strings[w][stack[w][i].src]]
          /\ Todo(w) = [i \in 1..n |-> stack[w][i].todo]
          /\ Src(w) = strings[w][stack[w][n].src] /\ Top(w) = stack[w][n]
        BY DEF Dirs, Todo, Src, Top
    <2>4. Dirs(w)' = Dirs(w)
        BY <2>1, <2>2, <2>3
    <2>5. Dirs(w)[n] = Src(w) /\ Todo(w)[n] = Top(w).todo
        BY <1>1, <2>3
    <2>6. \A i \in 2..n : i \in 1..n
        BY <1>1
    <2>7. ASSUME NEW i \in 2..n
          PROVE  Todo(w)'[i] = IF i = n THEN Todo(w)[n] \ {m} ELSE Todo(w)[i]
        <3>1. i \in 1..n
            BY <2>6
        <3>2. Todo(w)'[i] = stack'[w][i].todo /\ Todo(w)[i] = stack[w][i].todo
            BY <2>2, <2>3, <3>1
        <3>3. Todo(w)[n] = stack[w][n].todo
            BY <2>3, <2>5
        <3>4. stack'[w][i].todo = IF i = n THEN stack[w][n].todo \ {m} ELSE stack[w][i].todo
            BY <1>10, <3>1
        <3> HIDE DEF n
        <3> QED  BY <3>2, <3>3, <3>4
    <2> QED  BY <2>4, <2>5, <2>7
<1>13. pc'[w] = "entry_namei" /\ rc'[w] = NULL /\ arg'[w] = [path |-> y, to |-> NULL]
    BY <1>1, <1>3 DEF Request, Begin
<1>14. Item(w)' = y /\ Depth(w)' = n
    BY <1>6, <1>13 DEF Item, Depth, EnteringPc, Emptied
<1>15. Top(w)' = f
    BY <1>6 DEF Top
<1>16. current'[w] = b
    BY <1>1, <1>3 DEF NextEntry, ShapeInv
<1>17. m \in Todo(w)[n] /\ y = Append(Dirs(w)[n], m) /\ Depth(w) = n /\ Item(w) = NULL
       /\ arg'[w].path = y
    BY <1>1, <1>11, <1>13 DEF Depth, Item, EnteringPc, Emptied
<1> HIDE DEF n, y, f
<1> QED  BY <1>1, <1>4, <1>6, <1>7, <1>8, <1>10, <1>11, <1>13, <1>14, <1>15, <1>16, <1>17, ZenonT(30)
         DEF n

(* The next entry is looked up.                                            *)
LEMMA CourseEntry ==
    ASSUME BaseInv, NEW w \in Worker, Smooth(w), Serving(w), Begun(before[w], call[w]),
           Course(w), CopiedInv(w), CopiedInv(w)', RingSuffices, entry_namei(w)
    PROVE  Course(w)'
<1> DEFINE c == call[w]
           n == Len(stack[w])
<1>1. c \in Calls /\ c.op = "rename" /\ call[w] # NULL
    BY SmoothFacts DEF Smooth
<1> DEFINE a == tmpstr_new(current[w])
           b == tmpstr_new(a)
<1>2. PICK m \in Todo(w)[n] :
        LET y == Append(Dirs(w)[n], m) IN
        /\ n \in Nat /\ n > 1 /\ Depth(w) = n /\ Item(w) = NULL
        /\ UNCHANGED <<remote, call, before>>
        /\ pc'[w] = "entry_namei" /\ rc'[w] = NULL /\ arg'[w].path = y
        /\ Item(w)' = y /\ Depth(w)' = n /\ Len(stack'[w]) = n
        /\ \A i \in 1..n : /\ stack'[w][i].src = stack[w][i].src
                           /\ stack'[w][i].dst = stack[w][i].dst
                           /\ stack'[w][i].ret = stack[w][i].ret
        /\ Dirs(w)' = Dirs(w)
        /\ \A i \in 2..n : Todo(w)'[i] = IF i = n THEN Todo(w)[n] \ {m} ELSE Todo(w)[i]
        /\ Top(w)'.src_entry = a /\ Top(w)'.dst_entry = b
        /\ current'[w] = b /\ strings'[w][a] = y
    BY EntryMoves
<1> DEFINE y == Append(Dirs(w)[n], m)
<1>3. /\ Moves(remote, before[w], c) /\ Walk(remote, c, Dirs(w), Todo(w), n, NULL)
      /\ \A i \in 1..n : stack[w][i].ret # -1
    BY <1>2 DEF Course
<1>4. remote[y] # "absent" /\ Walk(remote, c, Dirs(w), Todo(w)', n, y)
    <2> DEFINE todo2 == Todo(w)'
    <2>1. n > 1 /\ m \in Todo(w)[n]
        BY <1>2
    <2>3. Taken(Todo(w), todo2, n, m)
        BY <1>2 DEF Taken
    <2>0. c \in Calls /\ c.op = "rename" /\ Walk(remote, c, Dirs(w), Todo(w), n, NULL)
        BY <1>1, <1>3
    <2> HIDE DEF n, todo2, c, y
    <2> HIDE NamespaceAssumption, RetryAssumption
    <2>2. remote[Append(Dirs(w)[n], m)] # "absent"
          /\ Walk(remote, c, Dirs(w), todo2, n, Append(Dirs(w)[n], m))
        BY <2>0, <2>1, <2>3, WalkNext
    <2> QED  BY <2>2 DEF todo2, y
<1>5. strings'[w][Top(w)'.dst_entry] = New(y, c)
    <2>1. Pair(w, strings[w][Top(w).src_entry], strings[w][Top(w).dst_entry])'
        BY <1>1, <1>2 DEF CopiedInv
    <2>2. /\ Top(w)'.src_entry = a /\ strings'[w][a] = y /\ call' = call
        BY <1>2
    <2>3. strings'[w][Top(w)'.dst_entry]
            = Moved(strings'[w][Top(w)'.src_entry], call'[w].path, call'[w].to)
        BY <2>1 DEF Pair
    <2> HIDE DEF y
    <2> QED  BY <2>2, <2>3 DEF New
<1>6. New(Item(w), call[w])' = New(y, c)
    BY <1>2 DEF New, Moved
<1>7. Asked(w)'
    <2>1. strings'[w][Top(w)'.src_entry] = y
        BY <1>2
    <2> HIDE DEF y
    <2> QED  BY <1>2, <1>4, <1>5, <1>6, <2>1, AskedNext, ZenonT(30) DEF EnteringPc, Status, y
<1>8. \A i \in 1..n : stack'[w][i].ret # -1
    BY <1>2, <1>3
<1> HIDE DEF n, y
<1> QED  BY <1>2, <1>3, <1>4, <1>7, <1>8 DEF Course, y

(* What is done is gone: the rename looks for the next entry, or returns.  *)
LEMMA CourseDone ==
    ASSUME BaseInv, NEW w \in Worker, Smooth(w), Serving(w), Begun(before[w], call[w]),
           Course(w), NEW e, e = Item(w), e # NULL, remote[e] = "absent",
           UNCHANGED <<remote, call, before>>,
           \/ Depth(w) = 1 /\ Return(w, 0)
           \/ /\ Depth(w) > 1 /\ pc'[w] = "loop"
              /\ Len(stack'[w]) = Depth(w)
              /\ \A i \in 1..Depth(w) :
                    /\ Dirs(w)'[i] = Dirs(w)[i] /\ Todo(w)'[i] = Todo(w)[i]
                    /\ stack'[w][i].src = stack[w][i].src
                    /\ stack'[w][i].dst = stack[w][i].dst /\ stack'[w][i].ret # -1
              /\ \/ current' = current
                 \/ pc[w] = "unlink" /\ current'[w] = tmpstr_new(current[w])
    PROVE  (Serving(w)' => Course(w)' /\ Going(w)) /\ (pc'[w] = "return" => Arrived(w)')
<1> DEFINE c == call[w]
           n == Depth(w)
<1>1. /\ c \in Calls /\ c.op = "rename" /\ pc \in [Worker -> Pc \cup {NULL}]
      /\ ret \in [Worker -> -1..1]
    BY SmoothFacts DEF ShapeInv
<1>2. Moves(remote, before[w], c) /\ Walk(remote, c, Dirs(w), Todo(w), n, e)
    BY DEF Course
<1>3. CASE Depth(w) = 1 /\ Return(w, 0)
    <2>1. e = c.path
        BY <1>2, <1>3 DEF Walk
    <2>2. pc'[w] = "return" /\ ret'[w] = 0
        BY <1>1, <1>3 DEF Return
    <2> HIDE DEF n
    <2> QED  BY <1>2, <2>1, <2>2 DEF Arrived, Serving
<1>4. CASE /\ Depth(w) > 1 /\ pc'[w] = "loop"
           /\ Len(stack'[w]) = Depth(w)
           /\ \A i \in 1..Depth(w) :
                    /\ Dirs(w)'[i] = Dirs(w)[i] /\ Todo(w)'[i] = Todo(w)[i]
                    /\ stack'[w][i].src = stack[w][i].src
                    /\ stack'[w][i].dst = stack[w][i].dst /\ stack'[w][i].ret # -1
           /\ \/ current' = current
              \/ pc[w] = "unlink" /\ current'[w] = tmpstr_new(current[w])
    <2>1. Item(w)' = NULL /\ Depth(w)' = n
        BY <1>4 DEF Item, Depth, EnteringPc, Emptied
    <2>2. n \in Nat /\ n > 1
        BY <1>2, <1>4 DEF Walk
    <2>3. Walk(remote, c, Dirs(w), Todo(w), n, NULL)
        BY <1>1, <1>2, <2>2, WalkDrop
    <2>4. Walk(remote, c, Dirs(w)', Todo(w)', n, NULL)
        <3>1. \A i \in 2..n : Dirs(w)'[i] = Dirs(w)[i] /\ Todo(w)'[i] = Todo(w)[i]
            BY <1>4, <2>2
        <3> HIDE DEF n
        <3> QED  BY <2>3, <3>1, WalkSame
    <2>5. Asked(w)'
        BY <1>4 DEF Asked, AskedOf, EnteringPc
    <2>6. Going(w)
        <3>1. n <= Len(stack[w])
            BY SmoothFacts DEF Depth
        <3> HIDE DEF n
        <3> QED  BY <1>4, <2>1, <2>2, <3>1 DEF Going, n
    <2> HIDE DEF n
    <2> QED  BY <1>2, <1>4, <2>1, <2>4, <2>5, <2>6 DEF Course, n
<1> QED  BY <1>3, <1>4

(* A file is removed.                                                      *)
LEMMA CourseUnlinked ==
    ASSUME BaseInv, NEW w \in Worker, Smooth(w), Serving(w), Begun(before[w], call[w]),
           Course(w), RingSuffices, unlink_done(w)
    PROVE  (Serving(w)' => Course(w)' /\ Going(w)) /\ (pc'[w] = "return" => Arrived(w)')
<1> DEFINE c == call[w]
           e == Item(w)
           n == Len(stack[w])
<1>1. /\ ShapeInv /\ stack[w] \in Seq(Frames) /\ n \in Nat /\ n > 0 /\ n \in 1..n
      /\ stack \in [Worker -> Seq(Frames)] /\ pc \in [Worker -> Pc \cup {NULL}]
      /\ strings \in [Worker -> [Address -> String]] /\ current[w] \in 0..TMPSTR_NB - 1
      /\ pc[w] = "unlink" /\ rc[w] # NULL /\ stack[w] # << >>
    BY SmoothFacts DEF ShapeInv, unlink_done, Waiting
<1>2. Succeeded(w)
    BY <1>1, GoodAnswer
<1>3. e # NULL /\ Depth(w) = n
    BY <1>1, ItemThere DEF Depth, EnteringPc, Emptied
<1>4. remote[e] = "absent" /\ \A i \in 1..n : stack[w][i].ret # -1
    BY <1>1, <1>2 DEF Course, Asked, AskedOf
<1>5. CASE n = 1
    <2>1. Return(w, 0)
        BY <1>1, <1>5 DEF unlink_done
    <2>2. UNCHANGED <<remote, call, before>>
        BY <2>1 DEF Return, tree
    <2> HIDE DEF e, n
    <2> QED  BY <1>3, <1>4, <1>5, <2>1, <2>2, CourseDone DEF e
<1>6. CASE n > 1
    <2> DEFINE a == tmpstr_new(current[w])
               s == <<"cache_dir">> \o arg[w].path
    <2>1. /\ tmpstr_printf(w, s) /\ pc'[w] = "loop"
          /\ stack' = [stack EXCEPT ![w][n].ret = 0]
          /\ UNCHANGED <<remote, call, before>>
        <3> HIDE NamespaceAssumption, RetryAssumption
        <3>1. n # 1 /\ stack[w] # << >>
            <4> HIDE DEF n
            <4> QED  BY <1>1, <1>6
        <3>2. \/ stack[w] = << >> /\ Return(w, 0)
              \/ Len(stack[w]) = 1 /\ Return(w, 0)
              \/ /\ tmpstr_printf(w, s) /\ pc'[w] = "loop"
                 /\ stack' = [stack EXCEPT ![w][n].ret = 0]
                 /\ UNCHANGED <<retryVars, tree, cwd, opened, call, arg, list, ret, before>>
            BY <1>1, <1>2, <3>1 DEF unlink_done
        <3> QED  BY <3>1, <3>2 DEF tree
    <2>2. a \in Address /\ \A x \in Address \ {a} : strings'[w][x] = strings[w][x]
        <3>1. a \in 0..TMPSTR_NB - 1
            BY <1>1, RingFacts
        <3>2. a \in Address
            BY <3>1, RingFacts
        <3> QED  BY <1>1, <2>1, <3>2 DEF tmpstr_printf
    <2>3. \A i \in 1..n : stack[w][i] \in Frames
        BY <1>1
    <2>4. stack'[w] = [stack[w] EXCEPT ![n] = [stack[w][n] EXCEPT !.ret = 0]]
        BY <1>1, <2>1
    <2>5. /\ Len(stack'[w]) = n
          /\ \A i \in 1..n : /\ stack'[w][i].src = stack[w][i].src
                             /\ stack'[w][i].dst = stack[w][i].dst
                             /\ stack'[w][i].todo = stack[w][i].todo
                             /\ stack'[w][i].ret # -1
        BY <1>1, <1>4, <2>3, <2>4 DEF Frames
    <2>6. \A i \in 1..n : stack[w][i].src \in Address \ {a}
        <3>1. a \notin InUse(w)
            BY <1>1, <1>2 DEF RingSuffices
        <3> QED  BY <1>1, <2>3, <3>1 DEF InUse, Frames
    <2>7. \A i \in 1..n : Dirs(w)'[i] = Dirs(w)[i] /\ Todo(w)'[i] = Todo(w)[i]
        BY <1>1, <2>2, <2>5, <2>6 DEF Dirs, Todo
    <2>8. current'[w] = a
        BY <1>1, <2>1 DEF tmpstr_printf, ShapeInv
    <2>9. Depth(w) > 1 /\ Len(stack'[w]) = Depth(w)
        BY <1>3, <1>6, <2>5
    <2>10. \A i \in 1..Depth(w) :
              /\ Dirs(w)'[i] = Dirs(w)[i] /\ Todo(w)'[i] = Todo(w)[i]
              /\ stack'[w][i].src = stack[w][i].src
              /\ stack'[w][i].dst = stack[w][i].dst /\ stack'[w][i].ret # -1
        BY <1>3, <2>5, <2>7
    <2>11. pc[w] = "unlink" /\ pc'[w] = "loop" /\ UNCHANGED <<remote, call, before>> /\ e = Item(w)
        BY <1>1, <2>1
    <2> HIDE DEF e, n, s
    <2> HIDE NamespaceAssumption, RetryAssumption
    <2> QED  BY <1>3, <1>4, <2>8, <2>9, <2>10, <2>11, CourseDone
<1> QED  BY <1>1, <1>5, <1>6

(* A directory is removed.                                                 *)
LEMMA CourseRemoved ==
    ASSUME BaseInv, NEW w \in Worker, Smooth(w), Serving(w), Begun(before[w], call[w]),
           Course(w), dir_done(w)
    PROVE  (Serving(w)' => Course(w)' /\ Going(w)) /\ (pc'[w] = "return" => Arrived(w)')
<1> DEFINE c == call[w]
           e == Item(w)
           n == Len(stack[w])
           s == Front(stack[w])
<1>1. /\ ShapeInv /\ stack[w] \in Seq(Frames) /\ n \in Nat /\ n > 1 /\ stack[w] # << >>
      /\ stack \in [Worker -> Seq(Frames)] /\ pc \in [Worker -> Pc \cup {NULL}]
      /\ pc[w] = "dir_rmdir" /\ rc[w] # NULL
    BY SmoothFacts DEF ShapeInv, dir_done, Waiting, BelowPc
<1>2. Succeeded(w) /\ Emptied(w)
    BY <1>1, GoodAnswer DEF Emptied
<1>3. e # NULL /\ Depth(w) = n - 1
    BY <1>1, <1>2, ItemThere DEF Depth
<1>4. remote[e] = "absent" /\ \A i \in 1..n : stack[w][i].ret # -1
    BY <1>1, <1>2 DEF Course, Asked, AskedOf
<1>5. s \in Seq(Frames) /\ Len(s) = n - 1 /\ \A i \in 1..n - 1 : s[i] = stack[w][i]
    BY <1>1, FrameFacts DEF Front
<1>6. Leave(w, s, 0)
    BY DEF dir_done
<1>7. CASE n - 1 = 1
    <2>1. Return(w, 0)
        BY <1>5, <1>6, <1>7 DEF Leave
    <2>2. UNCHANGED <<remote, call, before>>
        BY <2>1 DEF Return, tree
    <2> HIDE DEF e, n, s
    <2> QED  BY <1>3, <1>4, <1>7, <2>1, <2>2, CourseDone DEF e
<1>8. CASE n - 1 > 1
    <2>1. /\ pc'[w] = "loop" /\ stack' = [stack EXCEPT ![w] = [s EXCEPT ![Len(s)].ret = 0]]
          /\ UNCHANGED <<remote, call, before, strings, current>>
        <3> HIDE NamespaceAssumption, RetryAssumption
        <3> HIDE DEF s
        <3> QED  BY <1>1, <1>5, <1>6, <1>8, SMTT(30) DEF Leave, tree, ring
    <2>2. stack'[w] = [s EXCEPT ![n - 1] = [s[n - 1] EXCEPT !.ret = 0]]
        BY <1>1, <1>5, <2>1
    <2>3. \A i \in 1..n - 1 : s[i] \in Frames
        BY <1>5
    <2>4. /\ Len(stack'[w]) = n - 1
          /\ \A i \in 1..n - 1 : /\ stack'[w][i].src = stack[w][i].src
                                 /\ stack'[w][i].dst = stack[w][i].dst
                                 /\ stack'[w][i].todo = stack[w][i].todo
                                 /\ stack'[w][i].ret # -1
        <3> HIDE DEF s
        <3> QED  BY <1>1, <1>4, <1>5, <2>2, <2>3, SMTT(30) DEF Frames
    <2>5. \A i \in 1..n - 1 : Dirs(w)'[i] = Dirs(w)[i] /\ Todo(w)'[i] = Todo(w)[i]
        <3>1. /\ Dirs(w)' = [i \in 1..n - 1 |-> strings[w][stack'[w][i].src]]
              /\ Todo(w)' = [i \in 1..n - 1 |-> stack'[w][i].todo]
            BY <2>1, <2>4 DEF Dirs, Todo
        <3>2. \A i \in 1..n : Dirs(w)[i] = strings[w][stack[w][i].src] /\ Todo(w)[i] = stack[w][i].todo
            BY DEF Dirs, Todo
        <3>3. \A i \in 1..n - 1 : i \in 1..n
            BY <1>1
        <3> SUFFICES ASSUME NEW i \in 1..n - 1
                     PROVE  Dirs(w)'[i] = Dirs(w)[i] /\ Todo(w)'[i] = Todo(w)[i]
            OBVIOUS
        <3>4. Dirs(w)'[i] = strings[w][stack'[w][i].src] /\ Todo(w)'[i] = stack'[w][i].todo
            BY <3>1
        <3> QED  BY <2>4, <3>2, <3>3, <3>4, ZenonT(30)
    <2>9. Depth(w) > 1 /\ Len(stack'[w]) = Depth(w)
        BY <1>3, <1>8, <2>4
    <2>10. \A i \in 1..Depth(w) :
              /\ Dirs(w)'[i] = Dirs(w)[i] /\ Todo(w)'[i] = Todo(w)[i]
              /\ stack'[w][i].src = stack[w][i].src
              /\ stack'[w][i].dst = stack[w][i].dst /\ stack'[w][i].ret # -1
        BY <1>3, <2>4, <2>5
    <2>11. pc'[w] = "loop" /\ UNCHANGED <<remote, call, before, current>> /\ e = Item(w)
        BY <1>1, <2>1
    <2> HIDE DEF e, n, s
    <2> HIDE NamespaceAssumption, RetryAssumption
    <2> QED  BY <1>3, <1>4, <2>9, <2>10, <2>11, CourseDone
<1>9. n - 1 = 1 \/ n - 1 > 1
    <2> HIDE DEF n
    <2> QED  BY <1>1
<1> QED  BY <1>7, <1>8, <1>9

(* Every handler of such a rename keeps its course, or ends it well.       *)
LEMMA CourseHandler ==
    ASSUME BaseInv, BaseInv', NEW w \in Worker, Smooth(w), Serving(w), Begun(before[w], call[w]),
           Course(w), CopiedInv(w), CopiedInv(w)', RingSuffices, Handler(w), before'[w] # NULL
    PROVE  /\ Serving(w)' => Course(w)' /\ (Going(w) \/ entry_namei(w))
           /\ pc'[w] = "return" => Arrived(w)'
<1>1. call[w].op = "rename" /\ pc[w] \in RenamePc /\ rc[w] # NULL /\ call[w] # NULL
    BY SmoothFacts, HandlerAt DEF Smooth, Serving, Reply
<1>2. \/ unlink_done(w) \/ rename_dispatch(w) \/ rename_unlink(w)
      \/ dir_mkdir(w) \/ dir_chdir(w) \/ dir_opendir(w) \/ dir_list(w)
      \/ entry_namei(w) \/ entry_rename(w) \/ dir_rmdir(w) \/ dir_done(w)
    BY <1>1 DEF Handler, RenamePc, BelowPc, mkdir_done, mknod_done, rmdir_done, symlink_setattr,
                symlink_done, readlink_done, opendir_done, readdir_opendir, readdir_done, Reply,
                Waiting
<1>3. ASSUME Course(w)' PROVE (Serving(w)' => Course(w)') /\ (pc'[w] = "return" => Arrived(w)')
    <2>1. Depth(w)' \in Nat \ {0} /\ ServeInv(w)' /\ stack'[w] \in Seq(Frames)
        BY <1>3 DEF Course, Walk, BaseInv, Own, ShapeInv
    <2>2. pc'[w] = "return" => Depth(w)' = Len(stack'[w])
        BY DEF Depth, EnteringPc, Emptied
    <2>3. pc'[w] = "return" => stack'[w] = << >>
        BY <2>1 DEF ServeInv, Serving
    <2>4. pc'[w] # "return"
        BY <2>1, <2>2, <2>3
    <2> QED  BY <1>3, <2>4
<1> QED  BY <1>2, <1>3, CourseUnlinked, CourseRemoved, CourseLooked, CourseRequest, CourseListed,
            CourseEntry

-----------------------------------------------------------------------------
(* The ring of buffers lasts for what is in a directory that fits.         *)
InRing     == 0..TMPSTR_NB - 1
(* The buffers handed out from b to a, when these are less than a turn.    *)
Turn(a, b) == IF a >= b THEN a - b ELSE a - b + TMPSTR_NB

(* What a step of tmpstr_new does to the count of the buffers handed out;  *)
(* with fewer than a turn of them the next ones are not in use.            *)
LEMMA TurnFacts ==
    ASSUME NEW a \in InRing, NEW b \in InRing
    PROVE  /\ tmpstr_new(a) \in InRing /\ Turn(a, b) \in InRing /\ Turn(a, a) = 0
           /\ Turn(tmpstr_new(a), b) <= Turn(a, b) + 1
           /\ Turn(a, tmpstr_new(b)) <= TMPSTR_NB - 3 => tmpstr_new(a) \notin {b, tmpstr_new(b)}
           /\ Turn(a, tmpstr_new(b)) <= TMPSTR_NB - 4 =>
                tmpstr_new(tmpstr_new(a)) \notin {b, tmpstr_new(b)}
<1> USE DEF InRing, Turn, tmpstr_new
<1>0. TMPSTR_NB \in Nat /\ TMPSTR_NB > 2
    OBVIOUS
<1> HIDE NamespaceAssumption, RetryAssumption
<1>1. tmpstr_new(a) \in InRing /\ Turn(a, b) \in InRing /\ Turn(a, a) = 0
    BY <1>0
<1>2. Turn(tmpstr_new(a), b) <= Turn(a, b) + 1
    BY <1>0
<1>3. Turn(a, tmpstr_new(b)) <= TMPSTR_NB - 3 => tmpstr_new(a) # b /\ tmpstr_new(a) # tmpstr_new(b)
    BY <1>0
<1>4. Turn(a, tmpstr_new(b)) <= TMPSTR_NB - 4 =>
        tmpstr_new(tmpstr_new(a)) # b /\ tmpstr_new(tmpstr_new(a)) # tmpstr_new(b)
    BY <1>0
<1> QED  BY <1>1, <1>2, <1>3, <1>4

(* The buffers the entries X take.                                         *)
Cost(was, X) == 2 * Cardinality(X) + Cardinality({x \in X : was[x] # "dir"})

(* Fewer entries take no more buffers.                                     *)
LEMMA CostFacts ==
    ASSUME NEW was, NEW Y, IsFiniteSet(Y), NEW X \in SUBSET Y
    PROVE  Cost(was, X) \in Nat /\ Cost(was, Y) \in Nat /\ Cost(was, X) <= Cost(was, Y)
<1> DEFINE F(S) == {x \in S : was[x] # "dir"}
<1>1. IsFiniteSet(X) /\ IsFiniteSet(F(X)) /\ IsFiniteSet(F(Y)) /\ F(X) \subseteq F(Y)
    <2>1. F(X) \subseteq Y /\ F(Y) \subseteq Y /\ F(X) \subseteq F(Y)
        OBVIOUS
    <2> HIDE DEF F
    <2> QED  BY <2>1, FS_Subset
<1>2. /\ Cardinality(X) \in Nat /\ Cardinality(Y) \in Nat /\ Cardinality(X) <= Cardinality(Y)
    BY FS_Subset, FS_CardinalityType
<1>3. /\ Cardinality(F(X)) \in Nat /\ Cardinality(F(Y)) \in Nat
      /\ Cardinality(F(X)) <= Cardinality(F(Y))
    <2> HIDE DEF F
    <2> QED  BY <1>1, FS_Subset, FS_CardinalityType
<1> QED  BY <1>2, <1>3 DEF Cost

(* One entry more takes two buffers, and a file one more.                  *)
LEMMA CostMore ==
    ASSUME NEW was, NEW X, IsFiniteSet(X), NEW y, y \notin X
    PROVE  Cost(was, X \cup {y}) = Cost(was, X) + 2 + (IF was[y] # "dir" THEN 1 ELSE 0)
<1> DEFINE F(S) == {x \in S : was[x] # "dir"}
           Z == X \cup {y}
<1>1. IsFiniteSet(F(X)) /\ y \notin F(X)
    <2>1. F(X) \subseteq X
        OBVIOUS
    <2> HIDE DEF F
    <2> QED  BY <2>1, FS_Subset
<1>2. Cardinality(Z) = Cardinality(X) + 1 /\ Cardinality(X) \in Nat
    BY FS_AddElement, FS_CardinalityType
<1>3. Cardinality(F(Z)) = Cardinality(F(X)) + (IF was[y] # "dir" THEN 1 ELSE 0)
      /\ Cardinality(F(X)) \in Nat
    <2>1. CASE was[y] # "dir"
        <3>1. F(Z) = F(X) \cup {y}
            BY <2>1
        <3>2. Cardinality(F(X) \cup {y}) = Cardinality(F(X)) + 1 /\ Cardinality(F(X)) \in Nat
            <4> HIDE DEF F
            <4> QED  BY <1>1, FS_AddElement, FS_CardinalityType
        <3> QED  BY <2>1, <3>1, <3>2
    <2>2. CASE ~(was[y] # "dir")
        <3>1. F(Z) = F(X)
            BY <2>2
        <3>2. Cardinality(F(X)) \in Nat
            BY <1>1, FS_CardinalityType
        <3> HIDE DEF F, Z
        <3> QED  BY <2>2, <3>1, <3>2
    <2> QED  BY <2>1, <2>2
<1>4. Cost(was, Z) = 2 * Cardinality(Z) + Cardinality(F(Z))
      /\ Cost(was, X) = 2 * Cardinality(X) + Cardinality(F(X))
    BY DEF Cost
<1> HIDE DEF F, Z
<1> QED  BY <1>2, <1>3, <1>4 DEF Z

(* What a walk that has come to e has met below p.                         *)
Seen(r, was, dirs, n, e, p) ==
    {x \in Below(was, p) : r[x] = "absent" \/ x = e \/ \E i \in 2..n : x = dirs[i]}

(* The directories of a walk are each below the ones before it.            *)
LEMMA WalkChain ==
    ASSUME NEW r, NEW c, NEW dirs, NEW todo, NEW n, NEW e, Walk(r, c, dirs, todo, n, e),
           c \in Calls, c.op = "rename", NEW i \in 2..n
    PROVE  \A j \in i..n : Under(dirs[i], dirs[j])
<1> DEFINE T == {j \in i..n : ~Under(dirs[i], dirs[j])}
<1>1. n \in Nat /\ i \in Nat /\ i > 1 /\ \A j \in 2..n : dirs[j] \in Path /\ dirs[j] \in Seq(Name)
    BY CallFacts, SMTT(30) DEF Walk, Within
<1> SUFFICES ASSUME T # {} PROVE FALSE
    OBVIOUS
<1>2. T \in SUBSET Nat
    BY <1>1
<1>3. PICK j \in T : \A k \in T : j <= k
    <2> HIDE DEF T
    <2> QED  BY <1>2, Least
<1>4. j # i
    BY <1>1, <1>3, UnderRefl
<1>5. j \in Nat /\ j - 1 \in i..n /\ j - 1 \in 2..n /\ (j - 1) + 1 = j /\ j - 1 < n /\ j \in 2..n
    BY <1>1, <1>3, <1>4, SMTT(30)
<1>6. Under(dirs[i], dirs[j - 1])
    BY <1>3, <1>5
<1>7. Current(dirs, n, e, j - 1) = dirs[j]
    BY <1>5 DEF Current
<1>8. Current(dirs, n, e, j - 1) # NULL =>
          \E m \in Name : Current(dirs, n, e, j - 1) = Append(dirs[j - 1], m)
    BY <1>5 DEF Walk
<1>9. dirs[j] # NULL
    BY <1>1, <1>5, CallFacts
<1>10. PICK m \in Name : dirs[j] = Append(dirs[j - 1], m)
    BY <1>7, <1>8, <1>9
<1>11. dirs[i] \in Seq(Name) /\ dirs[j - 1] \in Seq(Name)
    BY <1>1, <1>5
<1>12. Under(dirs[i], dirs[j])
    <2> HIDE NamespaceAssumption, RetryAssumption
    <2> QED  BY <1>6, <1>10, <1>11, UnderAppend
<1> QED  BY <1>3, <1>12

(* An entry still to come has not been met.                                *)
LEMMA EntryUnseen ==
    ASSUME NEW r, NEW was, NEW c, Begun(was, c), Moves(r, was, c),
           NEW dirs, NEW todo, NEW n, Walk(r, c, dirs, todo, n, NULL), n > 1,
           NEW m \in todo[n], NEW i \in 2..n
    PROVE  LET y == Append(dirs[n], m) IN
           /\ y \in Below(was, dirs[i]) /\ y \notin Seen(r, was, dirs, n, NULL, dirs[i])
<1> DEFINE y == Append(dirs[n], m)
<1>1. c \in Calls /\ c.op = "rename" /\ n \in Nat /\ n \in 2..n /\ n # 1
    BY DEF Begun, Walk
<1>2. Within(r, c, dirs, n) /\ Entering(r, dirs, todo, NULL, n)
    BY <1>1 DEF Walk, Current
<1>3. m \in Name /\ y \in Path /\ r[y] # "absent" /\ dirs[n] \in Path /\ Under(c.path, dirs[n])
    BY <1>2 DEF Within, Entering
<1>4. Under(c.path, y)
    BY <1>1, <1>3, CallFacts, UnderAppend
<1>5. was[y] # "absent"
    BY <1>3, <1>4 DEF Moves
<1>6. \A j \in 2..n : Len(dirs[j]) = Len(c.path) + j - 2
    BY DEF Walk, Within
<1>7. Len(y) = Len(dirs[n]) + 1
    <2>1. dirs[n] \in Seq(Name)
        BY <1>3
    <2> HIDE NamespaceAssumption, RetryAssumption
    <2> QED  BY <1>3, <2>1, AppendFront
<1>8. \A j \in 2..n : y # dirs[j]
    <2> SUFFICES ASSUME NEW j \in 2..n, y = dirs[j] PROVE FALSE
        OBVIOUS
    <2>1. Len(c.path) + j - 2 = Len(c.path) + n - 2 + 1 /\ Len(c.path) \in Nat
        BY <1>1, <1>6, <1>7, CallFacts
    <2> HIDE DEF y
    <2> QED  BY <1>1, <2>1
<1>9. Under(dirs[i], y)
    <2>1. Under(dirs[i], dirs[n]) /\ dirs[i] \in Path
        <3>1. n \in i..n
            BY <1>1
        <3>2. dirs[i] \in Path
            BY DEF Walk, Within
        <3> QED  BY <1>1, <3>1, <3>2, WalkChain
    <2>2. dirs[i] \in Seq(Name) /\ dirs[n] \in Seq(Name)
        BY <1>3, <2>1
    <2> HIDE NamespaceAssumption, RetryAssumption
    <2> QED  BY <1>3, <2>1, <2>2, UnderAppend
<1>10. y # NULL
    BY <1>1, <1>3, CallFacts
<1> HIDE DEF y
<1> QED  BY <1>3, <1>5, <1>8, <1>9, <1>10 DEF Below, Seen, y

(* A walk that goes on has met no less.                                    *)
LEMMA SeenMore ==
    ASSUME NEW r, NEW r2, NEW was, NEW c, c \in Calls, c.op = "rename",
           \A x \in Path : Under(c.path, x) /\ r[x] = "absent" => r2[x] = "absent",
           NEW dirs, NEW n \in Nat, NEW e, NEW dirs2, NEW n2 \in Nat, NEW e2,
           \A i \in 2..n : dirs2[i] = dirs[i],
           \/ e2 = e /\ n2 = n
           \/ n2 = n /\ r2[e] = "absent"
           \/ n > 0 /\ n2 = n + 1 /\ dirs2[n + 1] = e
           \/ n > 1 /\ e = NULL /\ n2 = n - 1 /\ e2 = dirs[n],
           NEW p \in Path, Under(c.path, p)
    PROVE  Seen(r, was, dirs, n, e, p) \subseteq Seen(r2, was, dirs2, n2, e2, p)
<1> SUFFICES ASSUME NEW x \in Seen(r, was, dirs, n, e, p)
             PROVE  x \in Seen(r2, was, dirs2, n2, e2, p)
    OBVIOUS
<1>1. x \in Below(was, p) /\ x \in Path /\ Under(p, x)
    BY DEF Seen, Below
<1>2. Under(c.path, x)
    <2>1. c.path \in Seq(Name) /\ p \in Seq(Name) /\ x \in Seq(Name)
        BY <1>1, CallFacts
    <2> HIDE NamespaceAssumption, RetryAssumption
    <2> QED  BY <1>1, <2>1, UnderTrans
<1>3. CASE r[x] = "absent"
    BY <1>1, <1>2, <1>3 DEF Seen
<1>4. CASE x = e
    <2>1. x # NULL
        BY <1>1, CallFacts
    <2>2. n > 0 => n + 1 \in 2..n + 1
        OBVIOUS
    <2> QED  BY <1>1, <1>4, <2>1, <2>2 DEF Seen
<1>5. ASSUME NEW i \in 2..n, x = dirs[i] PROVE x \in Seen(r2, was, dirs2, n2, e2, p)
    <2>1. i \in 2..n2 \/ (i = n /\ x = e2)
        BY <1>5
    <2> QED  BY <1>1, <1>5, <2>1 DEF Seen
<1> QED  BY <1>3, <1>4, <1>5 DEF Seen

(* What w's rename has met below a directory, and the buffer the file it   *)
(* is at will take.                                                        *)
Met(w, p) == Seen(remote, before[w], Dirs(w), Depth(w), Item(w), p)
Due(w)    == IF Item(w) # NULL /\ before[w][Item(w)] # "dir" THEN 1 ELSE 0

(* The frames of a rename have the old and the new path, or two buffers    *)
(* one after the other; since these two were handed out no more buffers    *)
(* were than what the rename has met in the directory takes.               *)
FrameRing(w, i) ==
    LET src == stack[w][i].src
        dst == stack[w][i].dst
    IN  IF i <= 2 THEN src = OLDPATH /\ dst = NEWPATH
        ELSE /\ src \in InRing /\ dst = tmpstr_new(src)
             /\ Turn(current[w], dst) + Due(w) <= Cost(before[w], Met(w, Dirs(w)[i]))
RingInv(w) ==
    /\ \A i \in 1..Len(stack[w]) : FrameRing(w, i)
    /\ pc[w] = "entry_namei" =>
        /\ Top(w).src_entry \in InRing /\ Top(w).dst_entry = tmpstr_new(Top(w).src_entry)
        /\ current[w] = Top(w).dst_entry

(* The directories of the frames are below the old path.                   *)
LEMMA FramePaths ==
    ASSUME BaseInv, NEW w \in Worker, Smooth(w), Serving(w), Begun(before[w], call[w]), Course(w)
    PROVE  /\ Depth(w) \in Nat \ {0} /\ Depth(w) <= Len(stack[w])
           /\ Depth(w) < Len(stack[w]) =>
                Depth(w) = Len(stack[w]) - 1 /\ Item(w) = Dirs(w)[Len(stack[w])]
           /\ \A i \in 2..Len(stack[w]) : Dirs(w)[i] \in Path /\ Under(call[w].path, Dirs(w)[i])
<1>1. Len(stack[w]) \in Nat /\ Len(stack[w]) \in 1..Len(stack[w])
    BY SmoothFacts
<1>2. Walk(remote, call[w], Dirs(w), Todo(w), Depth(w), Item(w))
    BY DEF Course
<1>3. /\ Depth(w) \in Nat \ {0}
      /\ \A i \in 2..Depth(w) : Dirs(w)[i] \in Path /\ Under(call[w].path, Dirs(w)[i])
      /\ Item(w) # NULL => Item(w) \in Path /\ Under(call[w].path, Item(w))
    BY <1>2 DEF Walk, Within
<1>4. CASE pc[w] \in EnteringPc \/ Emptied(w)
    <2>1. Depth(w) = Len(stack[w]) - 1 /\ Item(w) = Src(w) /\ Item(w) # NULL
        BY <1>4, ItemThere DEF Depth, Item, EnteringPc
    <2>2. Src(w) = Dirs(w)[Len(stack[w])]
        BY <1>1 DEF Src, Dirs, Top
    <2>3. \A i \in 2..Len(stack[w]) : i \in 2..Depth(w) \/ i = Len(stack[w])
        BY <1>1, <2>1
    <2> QED  BY <1>1, <1>3, <2>1, <2>2, <2>3
<1>5. CASE ~(pc[w] \in EnteringPc \/ Emptied(w))
    <2>1. Depth(w) = Len(stack[w])
        BY <1>5 DEF Depth
    <2> QED  BY <1>1, <1>3, <2>1
<1> QED  BY <1>4, <1>5

(* What has been met in a directory takes no more than all of it.          *)
LEMMA MetFinite ==
    ASSUME IsFiniteSet(Path), NEW was, NEW p, NEW X \in SUBSET Below(was, p)
    PROVE  /\ IsFiniteSet(X) /\ Cost(was, X) \in Nat /\ IsFiniteSet(Below(was, p))
           /\ Cost(was, X) <= Cost(was, Below(was, p))
<1>1. Below(was, p) \subseteq Path
    BY DEF Below
<1>2. IsFiniteSet(Below(was, p)) /\ IsFiniteSet(X)
    BY <1>1, FS_Subset
<1> QED  BY <1>2, CostFacts

(* The ring lasts while the rename goes on.                                *)
LEMMA RingKeeps ==
    ASSUME IsFiniteSet(Path), BaseInv, BaseInv', NEW w \in Worker, Smooth(w), Serving(w),
           Begun(before[w], call[w]), Course(w), Going(w), RingInv(w),
           before'[w] = before[w], Smooth(w)', Serving(w)', Begun(before[w], call[w])', Course(w)'
    PROVE  RingInv(w)'
<1> DEFINE was == before[w]
           c == call[w]
           e == Item(w)
           n == Depth(w)
           k == Len(stack[w])
<1>1. /\ c \in Calls /\ c.op = "rename" /\ k \in Nat /\ k > 0
      /\ current[w] \in InRing /\ current'[w] \in InRing
      /\ n \in Nat \ {0} /\ Depth(w)' \in Nat \ {0}
    BY SmoothFacts, FramePaths, BaseInv' DEF BaseInv, ShapeInv, InRing, Course, Walk
<1>2. Due(w) \in {0, 1} /\ Due(w)' \in {0, 1}
    BY DEF Due
<1>3. Due(w)' <= Due(w)
    <2>1. Item(w)' = e \/ Item(w)' = NULL \/ was[Item(w)'] = "dir"
        BY DEF Going
    <2> HIDE DEF e
    <2> QED  BY <1>2, <2>1 DEF Due, e
<1>4. ASSUME NEW i \in 1..Len(stack'[w]), i > 2
      PROVE  /\ stack'[w][i].src \in InRing /\ stack'[w][i].dst = tmpstr_new(stack'[w][i].src)
             /\ Turn(current'[w], stack'[w][i].dst) + Due(w)'
                  <= Cost(was, Met(w, Dirs(w)[i])')
    <2>0. Met(w, Dirs(w)[i])' \in SUBSET Below(was, Dirs(w)'[i])
        BY DEF Met, Seen
    <2>1. Cost(was, Met(w, Dirs(w)[i])') \in Nat
        BY <2>0, MetFinite
    <2>2. CASE i > k
        <3>1. /\ i = k + 1 /\ remote[e] = "dir" /\ Item(w)' = e /\ pc[w] = "entry_namei"
              /\ stack'[w][i].src = Top(w).src_entry /\ stack'[w][i].dst = Top(w).dst_entry
            <4>1. \/ i <= k
                  \/ /\ i = k + 1 /\ remote[e] = "dir" /\ Item(w)' = e
                     /\ IF pc[w] = "rename_namei" THEN k = 1
                        ELSE /\ pc[w] = "entry_namei" /\ stack'[w][i].src = Top(w).src_entry
                             /\ stack'[w][i].dst = Top(w).dst_entry
                <5> HIDE DEF e
                <5> QED  BY DEF Going, e
            <4>2. i \in Nat
                OBVIOUS
            <4> HIDE DEF k, e
            <4> HIDE NamespaceAssumption, RetryAssumption
            <4> QED  BY <1>1, <1>4, <2>2, <4>1, <4>2
        <3>2. /\ stack'[w][i].src \in InRing /\ stack'[w][i].dst = tmpstr_new(stack'[w][i].src)
              /\ stack'[w][i].dst = current[w] /\ current'[w] = current[w]
            BY <3>1 DEF RingInv, Going
        <3>3. was[e] = "dir" /\ e # NULL
            <4>1. e # NULL
                BY <3>1, ItemThere
            <4>2. e \in Path /\ Under(c.path, e)
                BY <4>1 DEF Course, Walk
            <4> QED  BY <3>1, <4>1, <4>2 DEF Course, Moves
        <3>4. Due(w)' = 0
            BY <3>1, <3>3 DEF Due
        <3>5. Turn(current'[w], stack'[w][i].dst) = 0
            BY <1>1, <3>2, TurnFacts
        <3> QED  BY <2>1, <3>2, <3>4, <3>5
    <2>3. CASE i <= k
        <3>0. i \in 1..k /\ i \in 2..k
            BY <1>1, <1>4, <2>3
        <3>1. /\ Dirs(w)'[i] = Dirs(w)[i] /\ stack'[w][i].src = stack[w][i].src
              /\ stack'[w][i].dst = stack[w][i].dst
            BY <1>1, <1>4, <2>3 DEF Going
        <3>2. /\ stack[w][i].src \in InRing /\ stack[w][i].dst = tmpstr_new(stack[w][i].src)
              /\ Turn(current[w], stack[w][i].dst) + Due(w) <= Cost(was, Met(w, Dirs(w)[i]))
            BY <1>4, <3>0 DEF RingInv, FrameRing
        <3>3. stack[w][i].dst \in InRing
            BY <3>2, TurnFacts
        <3>4. Dirs(w)[i] \in Path /\ Under(c.path, Dirs(w)[i])
            BY <3>0, FramePaths
        <3>5. Met(w, Dirs(w)[i]) \subseteq Met(w, Dirs(w)[i])'
            <4>1. /\ \A x \in Path : Under(c.path, x) /\ remote[x] = "absent" => remote'[x] = "absent"
                  /\ \A j \in 2..n : Dirs(w)'[j] = Dirs(w)[j]
                  /\ \/ Item(w)' = e /\ Depth(w)' = n
                     \/ Depth(w)' = n /\ remote'[e] = "absent"
                     \/ n > 0 /\ Depth(w)' = n + 1 /\ Dirs(w)'[n + 1] = e
                     \/ n > 1 /\ e = NULL /\ Depth(w)' = n - 1 /\ Item(w)' = Dirs(w)[n]
                BY <1>1 DEF Going
            <4>2. Seen(remote, was, Dirs(w), n, e, Dirs(w)[i])
                    \subseteq Seen(remote', was, Dirs(w)', Depth(w)', Item(w)', Dirs(w)[i])
                <5> HIDE DEF was, c, e, n, k
                <5> QED  BY <1>1, <3>4, <4>1, SeenMore
            <4> QED  BY <3>1, <4>2 DEF Met
        <3>6. Cost(was, Met(w, Dirs(w)[i])) <= Cost(was, Met(w, Dirs(w)[i])')
              /\ Cost(was, Met(w, Dirs(w)[i])) \in Nat
            <4>1. IsFiniteSet(Met(w, Dirs(w)[i])')
                BY <2>0, MetFinite
            <4> QED  BY <3>5, <4>1, CostFacts
        <3>7. Turn(current'[w], stack[w][i].dst) + Due(w)' <= Turn(current[w], stack[w][i].dst) + Due(w)
              /\ Turn(current[w], stack[w][i].dst) \in Nat /\ Turn(current'[w], stack[w][i].dst) \in Nat
            <4>1. Turn(current[w], stack[w][i].dst) \in InRing
                  /\ Turn(current'[w], stack[w][i].dst) \in InRing
                  /\ Turn(tmpstr_new(current[w]), stack[w][i].dst) <= Turn(current[w], stack[w][i].dst) + 1
                BY <1>1, <3>3, TurnFacts
            <4>2. CASE current'[w] = current[w]
                BY <1>2, <1>3, <4>1, <4>2 DEF InRing
            <4>3. CASE pc[w] = "unlink" /\ Item(w)' = NULL /\ current'[w] = tmpstr_new(current[w])
                <5>1. e # NULL /\ was[e] # "dir"
                    BY <4>3, ItemThere DEF Course, Asked, AskedOf
                <5>2. Due(w) = 1 /\ Due(w)' = 0
                    BY <4>3, <5>1 DEF Due
                <5> QED  BY <4>1, <4>3, <5>2 DEF InRing
            <4> QED  BY <4>2, <4>3 DEF Going
        <3>8. Turn(current'[w], stack'[w][i].dst) + Due(w)' <= Cost(was, Met(w, Dirs(w)[i])')
            <4> HIDE DEF was
            <4> QED  BY <1>2, <2>1, <3>1, <3>2, <3>6, <3>7
        <3> QED  BY <3>1, <3>2, <3>8
    <2> QED  BY <1>1, <1>4, <2>2, <2>3
<1>5. ASSUME NEW i \in 1..Len(stack'[w]), i <= 2
      PROVE  stack'[w][i].src = OLDPATH /\ stack'[w][i].dst = NEWPATH
    <2>1. \/ /\ i <= k /\ stack'[w][i].src = stack[w][i].src /\ stack'[w][i].dst = stack[w][i].dst
          \/ /\ i = k + 1
             /\ \/ pc[w] = "entry_namei"
                \/ stack'[w][i].src = OLDPATH /\ stack'[w][i].dst = NEWPATH
        BY DEF Going
    <2>2. pc[w] = "entry_namei" => k > 1
        BY SmoothFacts DEF BelowPc
    <2>3. \A j \in 1..k : j <= 2 => stack[w][j].src = OLDPATH /\ stack[w][j].dst = NEWPATH
        BY DEF RingInv, FrameRing
    <2>4. i \in Nat /\ i >= 1
        OBVIOUS
    <2> HIDE DEF k
    <2> HIDE NamespaceAssumption, RetryAssumption
    <2>5. i \in 1..k \/ (i = k + 1 /\ pc[w] # "entry_namei")
        BY <1>1, <1>5, <2>1, <2>2, <2>4
    <2> QED  BY <1>1, <1>5, <2>1, <2>3, <2>4, <2>5
<1>6. \A i \in 1..Len(stack'[w]) : FrameRing(w, i)'
    <2> SUFFICES ASSUME NEW i \in 1..Len(stack'[w]) PROVE FrameRing(w, i)'
        OBVIOUS
    <2>1. CASE i <= 2
        BY <1>5, <2>1 DEF FrameRing
    <2>2. CASE i > 2
        BY <1>4, <2>2 DEF FrameRing
    <2> QED  BY <2>1, <2>2
<1>7. pc'[w] = "entry_namei" =>
        /\ Top(w)'.src_entry \in InRing /\ Top(w)'.dst_entry = tmpstr_new(Top(w)'.src_entry)
        /\ current'[w] = Top(w)'.dst_entry
    BY DEF Going, RingInv
<1> QED  BY <1>6, <1>7 DEF RingInv

(* The next entry takes two buffers, and a third when it is a file.        *)
LEMMA RingEntry ==
    ASSUME IsFiniteSet(Path), BaseInv, NEW w \in Worker, Smooth(w), Serving(w),
           Begun(before[w], call[w]), Course(w), RingInv(w), RingSuffices, entry_namei(w)
    PROVE  RingInv(w)'
<1> DEFINE was == before[w]
           c == call[w]
           n == Len(stack[w])
           a == tmpstr_new(current[w])
           b == tmpstr_new(a)
<1>1. /\ c \in Calls /\ c.op = "rename" /\ current[w] \in InRing
      /\ Moves(remote, was, c) /\ Walk(remote, c, Dirs(w), Todo(w), Depth(w), Item(w))
    BY SmoothFacts DEF BaseInv, ShapeInv, InRing, Course
<1>2. PICK m \in Todo(w)[n] :
        LET y == Append(Dirs(w)[n], m) IN
        /\ n \in Nat /\ n > 1 /\ Depth(w) = n /\ Item(w) = NULL
        /\ UNCHANGED <<remote, call, before>>
        /\ pc'[w] = "entry_namei" /\ rc'[w] = NULL /\ arg'[w].path = y
        /\ Item(w)' = y /\ Depth(w)' = n /\ Len(stack'[w]) = n
        /\ \A i \in 1..n : /\ stack'[w][i].src = stack[w][i].src
                           /\ stack'[w][i].dst = stack[w][i].dst
                           /\ stack'[w][i].ret = stack[w][i].ret
        /\ Dirs(w)' = Dirs(w)
        /\ \A i \in 2..n : Todo(w)'[i] = IF i = n THEN Todo(w)[n] \ {m} ELSE Todo(w)[i]
        /\ Top(w)'.src_entry = a /\ Top(w)'.dst_entry = b
        /\ current'[w] = b /\ strings'[w][a] = y
    BY EntryMoves
<1> DEFINE y == Append(Dirs(w)[n], m)
<1>3. a \in InRing /\ b \in InRing
    BY <1>1, TurnFacts
<1>4. Due(w) = 0 /\ Due(w)' = IF was[y] # "dir" THEN 1 ELSE 0
    <2>1. y # NULL
        <3>1. y \in Path
            <4>1. Entering(remote, Dirs(w), Todo(w), NULL, n)
                <5>1. n \in 2..n /\ Current(Dirs(w), n, NULL, n) = NULL
                    BY <1>2 DEF Current
                <5> HIDE DEF n
                <5> QED  BY <1>1, <1>2, <5>1 DEF Walk
            <4> QED  BY <4>1 DEF Entering
        <3> QED  BY <1>1, <3>1, CallFacts
    <2> HIDE DEF y
    <2> QED  BY <1>2, <2>1 DEF Due, y
<1>5. ASSUME NEW i \in 1..n, i > 2
      PROVE  /\ stack[w][i].src \in InRing /\ stack[w][i].dst = tmpstr_new(stack[w][i].src)
             /\ Turn(current'[w], stack[w][i].dst) + Due(w)' <= Cost(was, Met(w, Dirs(w)[i])')
    <2> DEFINE X == Met(w, Dirs(w)[i])
    <2>1. /\ stack[w][i].src \in InRing /\ stack[w][i].dst = tmpstr_new(stack[w][i].src)
          /\ Turn(current[w], stack[w][i].dst) + 0 <= Cost(was, X)
        BY <1>4, <1>5 DEF RingInv, FrameRing
    <2>2. stack[w][i].dst \in InRing
        BY <2>1, TurnFacts
    <2>3. y \in Below(was, Dirs(w)[i]) /\ y \notin X
        <3>1. i \in 2..n
            BY <1>2, <1>5
        <3>2. Walk(remote, c, Dirs(w), Todo(w), n, NULL) /\ n > 1 /\ m \in Todo(w)[n]
            BY <1>1, <1>2
        <3>3. y \notin Seen(remote, was, Dirs(w), n, NULL, Dirs(w)[i])
              /\ y \in Below(was, Dirs(w)[i])
            <4> HIDE DEF n, c, was
            <4> QED  BY <1>1, <3>1, <3>2, EntryUnseen DEF c, was
        <3> QED  BY <1>2, <3>3 DEF Met
    <2>4. X \cup {y} \subseteq Met(w, Dirs(w)[i])'
        <3>1. Dirs(w)'[i] = Dirs(w)[i] /\ remote' = remote /\ before'[w] = was
            BY <1>2
        <3>2. Met(w, Dirs(w)[i])' = Seen(remote, was, Dirs(w), n, y, Dirs(w)[i])
            BY <1>2, <3>1 DEF Met
        <3>3. X = Seen(remote, was, Dirs(w), n, NULL, Dirs(w)[i])
            BY <1>2 DEF Met
        <3>4. \A x \in X : x # NULL
            BY <1>1, CallFacts DEF Met, Seen, Below
        <3> HIDE DEF y, X, n, was
        <3> QED  BY <2>3, <3>2, <3>3, <3>4 DEF Seen
    <2>5. /\ IsFiniteSet(X) /\ IsFiniteSet(Met(w, Dirs(w)[i])') /\ Cost(was, X) \in Nat
        <3>1. X \in SUBSET Below(was, Dirs(w)[i])
            BY DEF Met, Seen
        <3>2. Met(w, Dirs(w)[i])' \in SUBSET Below(was, Dirs(w)[i])
            BY <1>2 DEF Met, Seen
        <3> HIDE DEF X, was
        <3> QED  BY <3>1, <3>2, MetFinite
    <2>6. /\ Cost(was, X \cup {y}) = Cost(was, X) + 2 + (IF was[y] # "dir" THEN 1 ELSE 0)
          /\ Cost(was, X \cup {y}) <= Cost(was, Met(w, Dirs(w)[i])')
          /\ Cost(was, Met(w, Dirs(w)[i])') \in Nat
        <3> HIDE DEF X, was, y
        <3> QED  BY <2>3, <2>4, <2>5, CostMore, CostFacts
    <2>7. /\ Turn(b, stack[w][i].dst) <= Turn(current[w], stack[w][i].dst) + 2
          /\ Turn(b, stack[w][i].dst) \in Nat /\ Turn(current[w], stack[w][i].dst) \in Nat
        <3>1. /\ Turn(a, stack[w][i].dst) <= Turn(current[w], stack[w][i].dst) + 1
              /\ Turn(b, stack[w][i].dst) <= Turn(a, stack[w][i].dst) + 1
              /\ Turn(b, stack[w][i].dst) \in InRing /\ Turn(a, stack[w][i].dst) \in InRing
              /\ Turn(current[w], stack[w][i].dst) \in InRing
            BY <1>1, <1>3, <2>2, TurnFacts
        <3> HIDE DEF a, b
        <3> QED  BY <3>1 DEF InRing
    <2>8. Turn(b, stack[w][i].dst) + Due(w)' <= Cost(was, Met(w, Dirs(w)[i])')
        <3>1. Due(w)' = (IF was[y] # "dir" THEN 1 ELSE 0) /\ Due(w)' \in {0, 1}
            BY <1>4
        <3> HIDE DEF X, was, y, b
        <3> HIDE NamespaceAssumption, RetryAssumption
        <3> QED  BY <2>1, <2>5, <2>6, <2>7, <3>1
    <2> QED  BY <1>2, <2>1, <2>8
<1>6. \A i \in 1..Len(stack'[w]) : FrameRing(w, i)'
    <2> SUFFICES ASSUME NEW i \in 1..n PROVE FrameRing(w, i)'
        BY <1>2
    <2>0. stack'[w][i].src = stack[w][i].src /\ stack'[w][i].dst = stack[w][i].dst
        BY <1>2
    <2>1. CASE i <= 2
        <3>1. stack[w][i].src = OLDPATH /\ stack[w][i].dst = NEWPATH
            BY <2>1 DEF RingInv, FrameRing
        <3> QED  BY <2>0, <2>1, <3>1 DEF FrameRing
    <2>2. CASE i > 2
        <3>1. /\ stack[w][i].src \in InRing /\ stack[w][i].dst = tmpstr_new(stack[w][i].src)
              /\ Turn(current'[w], stack[w][i].dst) + Due(w)' <= Cost(was, Met(w, Dirs(w)[i])')
            BY <1>5, <2>2
        <3>2. before'[w] = was
            BY <1>2
        <3> HIDE DEF was
        <3> QED  BY <2>0, <2>2, <3>1, <3>2 DEF FrameRing
    <2> QED  BY <1>2, <2>1, <2>2
<1>7. Top(w)'.src_entry \in InRing /\ Top(w)'.dst_entry = tmpstr_new(Top(w)'.src_entry)
      /\ current'[w] = Top(w)'.dst_entry
    BY <1>2, <1>3
<1> QED  BY <1>6, <1>7 DEF RingInv

(* What is in a directory below the old path fits in the ring.             *)
LEMMA FrameFits ==
    ASSUME BaseInv, NEW w \in Worker, Smooth(w), Serving(w), Begun(before[w], call[w]), Course(w),
           NEW i \in 2..Depth(w), i > 2
    PROVE  Cost(before[w], Below(before[w], Dirs(w)[i])) <= TMPSTR_NB - 2
<1> DEFINE was == before[w]
           c == call[w]
           p == Dirs(w)[i]
<1>1. /\ c \in Calls /\ c.op = "rename" /\ Len(c.path) \in Nat /\ i \in Nat
      /\ Moves(remote, was, c) /\ Within(remote, c, Dirs(w), i)
    <2>1. c \in Calls /\ c.op = "rename"
        BY SmoothFacts
    <2>2. i \in Nat
        BY FramePaths
    <2> QED  BY <2>1, <2>2, CallFacts DEF Course, Walk
<1>2. p \in Path /\ Under(c.path, p) /\ Len(p) = Len(c.path) + i - 2 /\ remote[p] = "dir"
    BY <1>1 DEF Within
<1>3. Len(p) # Len(c.path)
    <2> HIDE DEF p, c
    <2> QED  BY <1>1, <1>2
<1>4. was[p] # "absent"
    BY <1>1, <1>2 DEF Moves
<1>5. p \in Below(was, c.path)
    BY <1>2, <1>3, <1>4 DEF Below
<1>6. Buffers(was, p) <= TMPSTR_NB - 2
    BY <1>5 DEF Smooth, Fits
<1>7. Buffers(was, p) = Cost(was, Below(was, p))
    BY DEF Buffers, Cost
<1> QED  BY <1>6, <1>7

(* The ring reaches for such a rename.                                     *)
LEMMA RingReaches ==
    ASSUME IsFiniteSet(Path), BaseInv, NEW w \in Worker, Smooth(w), Serving(w),
           Begun(before[w], call[w]), Course(w), RingInv(w)
    PROVE  LET a == tmpstr_new(current[w]) IN
           /\ pc[w] = "loop" /\ Top(w).todo # {} => InUse(w) \cap {a, tmpstr_new(a)} = {}
           /\ pc[w] = "unlink" /\ Succeeded(w) => a \notin InUse(w)
<1> DEFINE was == before[w]
           k == Len(stack[w])
           a == tmpstr_new(current[w])
           b == tmpstr_new(a)
<1>1. /\ current[w] \in InRing /\ a \in InRing /\ b \in InRing /\ TMPSTR_NB \in Nat
      /\ k \in Nat /\ k > 0 /\ DOMAIN stack[w] = 1..k
    <2>1. current[w] \in InRing /\ stack[w] \in Seq(Frames) /\ k \in Nat /\ k > 0
        BY SmoothFacts DEF ShapeInv, InRing
    <2>2. DOMAIN stack[w] = 1..k
        BY <2>1
    <2> QED  BY <2>1, <2>2, TurnFacts
<1>2. ASSUME pc[w] \in {"loop", "unlink"}, NEW i \in 1..k, i > 2
      PROVE  LET src == stack[w][i].src
                 dst == stack[w][i].dst
                 X   == Met(w, Dirs(w)[i])
             IN  /\ src \in InRing /\ dst = tmpstr_new(src) /\ dst \in InRing
                 /\ Turn(current[w], dst) + Due(w) <= Cost(was, X)
                 /\ Turn(current[w], dst) \in Nat
                 /\ IsFiniteSet(X) /\ Cost(was, X) \in Nat
                 /\ Cost(was, X) <= Cost(was, Below(was, Dirs(w)[i]))
                 /\ Cost(was, Below(was, Dirs(w)[i])) \in Nat
                 /\ Cost(was, Below(was, Dirs(w)[i])) <= TMPSTR_NB - 2
                 /\ IsFiniteSet(Below(was, Dirs(w)[i]))
    <2>1. /\ stack[w][i].src \in InRing /\ stack[w][i].dst = tmpstr_new(stack[w][i].src)
          /\ Turn(current[w], stack[w][i].dst) + Due(w) <= Cost(was, Met(w, Dirs(w)[i]))
        BY <1>2 DEF RingInv, FrameRing
    <2>2. stack[w][i].dst \in InRing /\ Turn(current[w], stack[w][i].dst) \in Nat
        <3>1. stack[w][i].dst \in InRing
            BY <2>1, TurnFacts
        <3>2. Turn(current[w], stack[w][i].dst) \in InRing
            BY <1>1, <3>1, TurnFacts
        <3> QED  BY <3>1, <3>2 DEF InRing
    <2>3. Met(w, Dirs(w)[i]) \in SUBSET Below(was, Dirs(w)[i])
        BY DEF Met, Seen
    <2>4. /\ IsFiniteSet(Met(w, Dirs(w)[i])) /\ Cost(was, Met(w, Dirs(w)[i])) \in Nat
          /\ Cost(was, Met(w, Dirs(w)[i])) <= Cost(was, Below(was, Dirs(w)[i]))
          /\ IsFiniteSet(Below(was, Dirs(w)[i]))
          /\ Cost(was, Below(was, Dirs(w)[i])) \in Nat
        <3> HIDE DEF was
        <3>1. Below(was, Dirs(w)[i]) \in SUBSET Below(was, Dirs(w)[i])
            OBVIOUS
        <3> QED  BY <2>3, <3>1, MetFinite
    <2>5. Depth(w) = k
        BY <1>2 DEF Depth, EnteringPc, Emptied
    <2>6. i \in 2..Depth(w)
        BY <1>1, <1>2, <2>5
    <2>7. Cost(was, Below(was, Dirs(w)[i])) <= TMPSTR_NB - 2
        BY <1>2, <2>6, FrameFits
    <2> QED  BY <2>1, <2>2, <2>4, <2>7
<1>3. ASSUME NEW x \in InRing, pc[w] \in {"loop", "unlink"},
             \A i \in 1..k : i > 2 => x \notin {stack[w][i].src, stack[w][i].dst}
      PROVE  x \notin InUse(w)
    <2> SUFFICES ASSUME x \in InUse(w) PROVE FALSE
        OBVIOUS
    <2>1. PICK i \in 1..k : x \in {stack[w][i].src, stack[w][i].dst}
        BY <1>1 DEF InUse
    <2>2. i <= 2
        BY <1>3, <2>1
    <2>3. stack[w][i].src = OLDPATH /\ stack[w][i].dst = NEWPATH
        BY <2>2 DEF RingInv, FrameRing
    <2>4. x # OLDPATH /\ x # NEWPATH
        BY <1>3, RingFacts DEF InRing
    <2> QED  BY <2>1, <2>3, <2>4
<1>4. ASSUME pc[w] = "loop", Top(w).todo # {} PROVE a \notin InUse(w) /\ b \notin InUse(w)
    <2>1. Depth(w) = k /\ Item(w) = NULL /\ k > 1 /\ k \in 2..k
        <3>1. Depth(w) = k /\ Item(w) = NULL
            BY <1>4 DEF Depth, Item, EnteringPc, Emptied
        <3>2. k > 1
            BY <1>4, SmoothFacts DEF BelowPc
        <3> HIDE DEF k
        <3> QED  BY <1>1, <3>1, <3>2
    <2>2. PICK m \in Todo(w)[k] : TRUE
        BY <1>1, <1>4, SmoothFacts DEF Todo, Top
    <2>3. ASSUME NEW i \in 1..k, i > 2
          PROVE  Turn(current[w], stack[w][i].dst) <= TMPSTR_NB - 4
        <3> DEFINE X == Met(w, Dirs(w)[i])
                   Y == Below(was, Dirs(w)[i])
                   y == Append(Dirs(w)[k], m)
        <3>1. y \in Y /\ y \notin X
            <4>1. Walk(remote, call[w], Dirs(w), Todo(w), k, NULL) /\ Moves(remote, was, call[w])
                BY <2>1 DEF Course
            <4>2. i \in 2..k
                BY <1>1, <2>3
            <4>3. y \in Below(was, Dirs(w)[i]) /\ y \notin Seen(remote, was, Dirs(w), k, NULL, Dirs(w)[i])
                <5> HIDE DEF k
                <5> QED  BY <2>1, <2>2, <4>1, <4>2, EntryUnseen
            <4> QED  BY <2>1, <4>3 DEF Met
        <3>2. /\ IsFiniteSet(X) /\ IsFiniteSet(Y) /\ Cost(was, X) \in Nat /\ Cost(was, Y) \in Nat
              /\ Cost(was, Y) <= TMPSTR_NB - 2
              /\ Turn(current[w], stack[w][i].dst) + Due(w) <= Cost(was, X)
              /\ Turn(current[w], stack[w][i].dst) \in Nat
            BY <1>2, <1>4, <2>3
        <3>3. X \cup {y} \in SUBSET Y
            BY <3>1 DEF Met, Seen
        <3>4. /\ Cost(was, X \cup {y}) = Cost(was, X) + 2 + (IF was[y] # "dir" THEN 1 ELSE 0)
              /\ Cost(was, X \cup {y}) <= Cost(was, Y)
            <4> HIDE DEF X, Y, y, was
            <4> QED  BY <3>1, <3>2, <3>3, CostMore, CostFacts
        <3>5. Due(w) = 0
            BY <2>1 DEF Due
        <3> HIDE DEF X, Y, y, was
        <3> QED  BY <1>1, <3>2, <3>4, <3>5
    <2>4. ASSUME NEW i \in 1..k, i > 2
          PROVE  {a, b} \cap {stack[w][i].src, stack[w][i].dst} = {}
        <3>1. stack[w][i].src \in InRing /\ stack[w][i].dst = tmpstr_new(stack[w][i].src)
              /\ Turn(current[w], stack[w][i].dst) \in Nat
            BY <1>2, <1>4, <2>4
        <3>2. Turn(current[w], stack[w][i].dst) <= TMPSTR_NB - 4
            BY <2>3, <2>4
        <3>3. Turn(current[w], stack[w][i].dst) <= TMPSTR_NB - 3
            BY <1>1, <3>1, <3>2
        <3> QED  BY <1>1, <3>1, <3>2, <3>3, TurnFacts
    <2> HIDE DEF k, a, b
    <2>5. \A i \in 1..k : i > 2 => a \notin {stack[w][i].src, stack[w][i].dst}
        BY <2>4
    <2>6. \A i \in 1..k : i > 2 => b \notin {stack[w][i].src, stack[w][i].dst}
        BY <2>4
    <2> QED  BY <1>1, <1>3, <1>4, <2>5, <2>6
<1>5. ASSUME pc[w] = "unlink", Succeeded(w) PROVE a \notin InUse(w)
    <2>1. Due(w) = 1
        <3>1. Item(w) # NULL
            BY <1>5, ItemThere
        <3>2. was[Item(w)] # "dir"
            BY <1>5 DEF Course, Asked, AskedOf
        <3> QED  BY <3>1, <3>2 DEF Due
    <2>2. ASSUME NEW i \in 1..k, i > 2 PROVE a \notin {stack[w][i].src, stack[w][i].dst}
        <3>1. /\ stack[w][i].src \in InRing /\ stack[w][i].dst = tmpstr_new(stack[w][i].src)
              /\ Turn(current[w], stack[w][i].dst) \in Nat
              /\ Turn(current[w], stack[w][i].dst) + Due(w) <= TMPSTR_NB - 2
            BY <1>1, <1>2, <1>5, <2>1, <2>2
        <3>2. Turn(current[w], stack[w][i].dst) <= TMPSTR_NB - 3
            BY <1>1, <2>1, <3>1
        <3> QED  BY <1>1, <3>1, <3>2, TurnFacts
    <2> HIDE DEF k, a
    <2> QED  BY <1>1, <1>3, <1>5, <2>2
<1> QED  BY <1>4, <1>5

(* A rename that enters has its whole course before it.                    *)
LEMMA CourseStart ==
    ASSUME BaseInv, DOMAIN before = Worker, Rooted(remote),
           NEW w \in Worker, dfs_rename(w), Smooth(w)'
    PROVE  Begun(before[w], call[w])' /\ Course(w)' /\ RingInv(w)'
<1>1. PICK c \in Calls : /\ call[w] = NULL /\ c.op = "rename" /\ Allowed(c)
                         /\ call' = [call EXCEPT ![w] = c]
    BY DEF dfs_rename, Enter
<1>2. /\ call \in [Worker -> Calls \cup {NULL}] /\ pc \in [Worker -> Pc \cup {NULL}]
      /\ DOMAIN rc = Worker /\ DOMAIN arg = Worker /\ DOMAIN stack = Worker
      /\ strings \in [Worker -> [Address -> String]]
    BY DEF BaseInv, ShapeInv, RetryTypeOK
<1>3. call'[w] = c /\ before'[w] = remote /\ remote' = remote /\ current' = current
    BY <1>1, <1>2 DEF dfs_rename, tree
<1>4. /\ pc'[w] = "rename_namei" /\ rc'[w] = NULL /\ arg'[w] = [path |-> c.path, to |-> NULL]
      /\ stack'[w] = <<Frame(OLDPATH, NEWPATH)>>
    BY <1>2, <1>3 DEF dfs_rename, Request, Begin
<1>5. c \in Calls /\ c.op = "rename" /\ c.path \in Path /\ c.to \in Path /\ c.path # NULL
      /\ New(c.path, c) = c.to
    BY <1>1, CallFacts
<1>6. Begun(remote, c)
    <2>1. /\ There(c.path) /\ HasParent(c.to) /\ ~Under(c.path, c.to) /\ ~Under(c.to, c.path)
          /\ There(c.to) => (IsDir(c.path) <=> IsDir(c.to))
        BY <1>1 DEF Allowed
    <2>2. Names(remote, c.to) = {}
        BY <1>3 DEF Smooth
    <2> QED  BY <1>5, <2>1, <2>2 DEF Begun, There, HasParent, IsDir
<1>7. Item(w)' = c.path /\ Depth(w)' = 1 /\ Len(stack'[w]) = 1
    <2>1. Len(stack'[w]) = 1
        BY <1>4
    <2>2. pc'[w] \notin EnteringPc /\ ~Emptied(w)' /\ pc'[w] \notin {"loop", "dir_rmdir"}
        BY <1>4 DEF EnteringPc, Emptied
    <2> QED  BY <1>4, <2>1, <2>2 DEF Item, Depth
<1>8. Moves(remote', before'[w], call'[w])
      /\ Walk(remote', call'[w], Dirs(w)', Todo(w)', Depth(w)', Item(w)')
    <2>1. Walk(remote, c, Dirs(w)', Todo(w)', 1, c.path) /\ Moves(remote, remote, c)
        BY <1>5, MovesStart, WalkStart
    <2> QED  BY <1>3, <1>7, <2>1
<1>9. \A i \in 1..Len(stack'[w]) :
          stack'[w][i].ret # -1 /\ stack'[w][i].src = OLDPATH /\ stack'[w][i].dst = NEWPATH
    <2>1. \A i \in 1..1 : stack'[w][i] = Frame(OLDPATH, NEWPATH)
        BY <1>4
    <2> QED  BY <1>7, <2>1 DEF Frame
<1>10. Asked(w)'
    <2> DEFINE e == c.path
               q == c.to
    <2>1. Item(w)' = e /\ New(Item(w), call[w])' = q
        BY <1>3, <1>5, <1>7
    <2>2. remote'[e] # "absent"
        BY <1>3, <1>6 DEF Begun
    <2> HIDE DEF e, q
    <2> QED  BY <1>4, <1>7, <2>1, <2>2, AskedNext DEF EnteringPc, Status
<1>11. Course(w)'
    BY <1>8, <1>9, <1>10 DEF Course
<1>12. RingInv(w)'
    <2>1. \A i \in 1..Len(stack'[w]) : i <= 2
        BY <1>7
    <2>2. \A i \in 1..Len(stack'[w]) : FrameRing(w, i)'
        BY <1>9, <2>1 DEF FrameRing
    <2> QED  BY <1>4, <2>2 DEF RingInv
<1> QED  BY <1>3, <1>6, <1>11, <1>12

(* A handler leaves the store its rename began with alone.                 *)
LEMMA BeforeKeeps ==
    ASSUME NEW w \in Worker, Handler(w)
    PROVE  before' = before \/ before' = [before EXCEPT ![w] = NULL]
<1> USE DEF Return, Leave
<1>1. CASE Reply(w)  BY <1>1 DEF Reply
<1>2. CASE unlink_done(w)  BY <1>2 DEF unlink_done
<1>3. CASE rename_dispatch(w) \/ rename_unlink(w)
    BY <1>3 DEF rename_dispatch, rename_unlink
<1>4. CASE dir_mkdir(w) \/ dir_chdir(w) \/ dir_opendir(w) \/ dir_list(w)
    BY <1>4 DEF dir_mkdir, dir_chdir, dir_opendir, dir_list
<1>5. CASE entry_namei(w) \/ entry_rename(w) \/ dir_rmdir(w) \/ dir_done(w)
    BY <1>5 DEF entry_namei, entry_rename, dir_rmdir, dir_done
<1>6. CASE mkdir_done(w) \/ mknod_done(w) \/ rmdir_done(w)
    BY <1>6 DEF mkdir_done, mknod_done, rmdir_done
<1>7. CASE symlink_setattr(w) \/ symlink_done(w) \/ readlink_done(w)
    BY <1>7 DEF symlink_setattr, symlink_done, readlink_done
<1>8. CASE opendir_done(w) \/ readdir_opendir(w) \/ readdir_done(w)
    BY <1>8 DEF opendir_done, readdir_opendir, readdir_done
<1> QED  BY <1>1, <1>2, <1>3, <1>4, <1>5, <1>6, <1>7, <1>8 DEF Handler

(* The inductive invariant of the renames: those that meet no refusal are  *)
(* on their course, and the ring lasts to its end.                         *)
RenameInv(w) ==
    Smooth(w) =>
        /\ Begun(before[w], call[w]) /\ CopiedInv(w)
        /\ Serving(w) => Course(w) /\ RingInv(w)
        /\ pc[w] = "return" => Arrived(w)
MovingInv ==
    /\ MadeInv /\ DOMAIN before = Worker /\ Rooted(remote)
    /\ \A w \in Worker : Checked(w) /\ RenameInv(w)

(* No other call is a rename.                                              *)
LEMMA RenameCall ==
    ASSUME BaseInv, DOMAIN before = Worker, Rooted(remote), NEW w \in Worker, Call(w)
    PROVE  RenameInv(w)'
<1> SUFFICES ASSUME Smooth(w)'
             PROVE  /\ Begun(before[w], call[w])' /\ CopiedInv(w)'
                    /\ Serving(w)' => Course(w)' /\ RingInv(w)'
                    /\ pc'[w] = "return" => Arrived(w)'
    BY DEF RenameInv
<1>1. call \in [Worker -> Calls \cup {NULL}] /\ DOMAIN pc = Worker /\ ShapeInv
    BY DEF BaseInv, ShapeInv
<1>2. call'[w].op = "rename"
    BY DEF Smooth
<1>3. dfs_rename(w)
    <2>1. ASSUME NEW op, op # "rename", Enter(w, op) PROVE FALSE
        BY <1>1, <1>2, <2>1 DEF Enter
    <2> QED  BY <2>1 DEF Call, dfs_mkdir, dfs_mknod, dfs_rmdir, dfs_symlink, dfs_readlink,
                         dfs_opendir, dfs_readdir, readdir_no_cell, dfs_unlink, EnterWith
<1>4. pc'[w] # "return"
    BY <1>1, <1>3 DEF dfs_rename, Request
<1> QED  BY <1>1, <1>3, <1>4, CourseStart, CopiedEnter

(* An attempt that is answered keeps a rename on its course.               *)
LEMMA RenameAttempt ==
    ASSUME IsFiniteSet(Path), MadeInv, BaseInv', DOMAIN before = Worker,
           NEW w \in Worker, RenameInv(w), Attempt(w)
    PROVE  RenameInv(w)'
<1> SUFFICES ASSUME Smooth(w)'
             PROVE  /\ Begun(before[w], call[w])' /\ CopiedInv(w)'
                    /\ Serving(w)' => Course(w)' /\ RingInv(w)'
                    /\ pc'[w] = "return" => Arrived(w)'
    BY DEF RenameInv
<1>1. BaseInv /\ ShapeInv /\ Own(w)
    BY DEF MadeInv, BaseInv
<1>2. before'[w] # NULL
    BY DEF Smooth
<1>3. before' = before /\ UNCHANGED <<call, pc>>
    BY <1>2, AnswerFacts
<1>4. Smooth(w) /\ Serving(w) /\ Serving(w)' /\ pc'[w] # "return"
    BY <1>1, <1>3, AttemptFrames DEF Smooth, Serving
<1>5. Begun(before[w], call[w]) /\ CopiedInv(w) /\ Course(w) /\ RingInv(w)
    BY <1>4 DEF RenameInv
<1>6. Begun(before[w], call[w])'
    BY <1>3, <1>5
<1>7. Course(w)' /\ Going(w)
    BY <1>2, <1>4, <1>5, CourseAttempt
<1>8. RingInv(w)'
    BY <1>1, <1>3, <1>4, <1>5, <1>6, <1>7, RingKeeps
<1>9. CopiedInv(w)'
    BY <1>1, <1>5, CopiedAttempt
<1> QED  BY <1>4, <1>6, <1>7, <1>8, <1>9

(* So does a step of its handler, when nobody else moves meanwhile.        *)
LEMMA RenameHandler ==
    ASSUME IsFiniteSet(Path), \A u, v \in Worker : u = v, BaseInv, BaseInv',
           DOMAIN before = Worker, NEW w \in Worker, RenameInv(w), Handler(w)
    PROVE  RenameInv(w)'
<1> SUFFICES ASSUME Smooth(w)'
             PROVE  /\ Begun(before[w], call[w])' /\ CopiedInv(w)'
                    /\ Serving(w)' => Course(w)' /\ RingInv(w)'
                    /\ pc'[w] = "return" => Arrived(w)'
    BY DEF RenameInv
<1>1. call \in [Worker -> Calls \cup {NULL}] /\ before'[w] # NULL /\ call'[w] # NULL
    BY DEF BaseInv, ShapeInv, Smooth
<1>2. before'[w] = before[w] /\ call'[w] = call[w]
    BY <1>1, BeforeKeeps, HandlerKeeps
<1>3. Smooth(w)
    BY <1>2 DEF Smooth
<1>4. Serving(w)
    <2>1. ~Reply(w)
        BY <1>1 DEF Reply
    <2> QED  BY <2>1, HandlerAt
<1>5. Begun(before[w], call[w]) /\ CopiedInv(w) /\ Course(w) /\ RingInv(w)
    BY <1>3, <1>4 DEF RenameInv
<1>6. Begun(before[w], call[w])'
    BY <1>2, <1>5
<1>7. RingSuffices
    <2>1. LET a == tmpstr_new(current[w]) IN
          /\ pc[w] = "loop" /\ Top(w).todo # {} => InUse(w) \cap {a, tmpstr_new(a)} = {}
          /\ pc[w] = "unlink" /\ Succeeded(w) => a \notin InUse(w)
        BY <1>3, <1>4, <1>5, RingReaches
    <2>2. \A v \in Worker : v = w
        OBVIOUS
    <2> QED  BY <2>1, <2>2 DEF RingSuffices
<1>8. CopiedInv(w)'
    BY <1>5, <1>7, CopiedHandler
<1>9. /\ Serving(w)' => Course(w)' /\ (Going(w) \/ entry_namei(w))
      /\ pc'[w] = "return" => Arrived(w)'
    BY <1>1, <1>3, <1>4, <1>5, <1>7, <1>8, CourseHandler
<1>10. ASSUME Serving(w)' PROVE RingInv(w)'
    <2>1. CASE Going(w)
        BY <1>2, <1>3, <1>4, <1>5, <1>6, <1>9, <1>10, <2>1, RingKeeps
    <2>2. CASE entry_namei(w)
        BY <1>3, <1>4, <1>5, <1>7, <2>2, RingEntry
    <2> QED  BY <1>9, <1>10, <2>1, <2>2
<1> QED  BY <1>6, <1>8, <1>9, <1>10

(* And a step that is none of a worker's.                                  *)
LEMMA RenameIdle ==
    ASSUME NEW w \in Worker, RenameInv(w), UNCHANGED <<retryVars, tree, cwd, self>>
    PROVE  RenameInv(w)'
<1>1. UNCHANGED <<fn, tries, rc, remote, cwd, call, pc, arg, stack, strings, current, list,
                  ret, before>>
    BY DEF retryVars, tree, self, ring
<1>2. Smooth(w)' = Smooth(w) /\ Serving(w)' = Serving(w)
    BY <1>1 DEF Smooth, Serving
<1>3. CopiedInv(w)' = CopiedInv(w)
    BY <1>1 DEF CopiedInv, Pair, Top, Succeeded, There
<1>4. /\ Top(w)' = Top(w) /\ Src(w)' = Src(w) /\ Dst(w)' = Dst(w)
      /\ Succeeded(w)' = Succeeded(w) /\ Emptied(w)' = Emptied(w)
      /\ Dirs(w)' = Dirs(w) /\ Todo(w)' = Todo(w)
    BY <1>1 DEF Top, Src, Dst, Succeeded, Emptied, Dirs, Todo
<1>5. Item(w)' = Item(w) /\ Depth(w)' = Depth(w)
    BY <1>1, <1>4 DEF Item, Depth
<1>6. Asked(w)' = Asked(w)
    BY <1>1, <1>4, <1>5 DEF Asked, AskedOf, TypeOf, IsDir
<1>7. Course(w)' = Course(w) /\ Arrived(w)' = Arrived(w)
    BY <1>1, <1>4, <1>5, <1>6 DEF Course, Arrived
<1>8. Due(w)' = Due(w) /\ \A p : Met(w, p)' = Met(w, p)
    BY <1>1, <1>4, <1>5 DEF Due, Met
<1>9. \A i : FrameRing(w, i)' = FrameRing(w, i)
    BY <1>1, <1>4, <1>8 DEF FrameRing
<1>10. RingInv(w)' = RingInv(w)
    BY <1>1, <1>4, <1>9 DEF RingInv
<1>11. Begun(before[w], call[w])' = Begun(before[w], call[w])
    BY <1>1
<1> QED  BY <1>1, <1>2, <1>3, <1>7, <1>10, <1>11 DEF RenameInv

(* The store is a tree at the start, and no rename has begun.              *)
LEMMA MovingInit == Init => MovingInv
<1> SUFFICES ASSUME Init PROVE MovingInv
    OBVIOUS
<1>1. MadeInv
    BY MadeInit
<1>2. DOMAIN before = Worker /\ \A w \in Worker : call[w] = NULL
    BY DEF Init
<1>3. Rooted(remote)
    BY DEF Init, Rooted
<1>4. \A w \in Worker : Checked(w) /\ RenameInv(w)
    BY <1>2 DEF Checked, RenameInv, Smooth
<1> QED  BY <1>1, <1>2, <1>3, <1>4 DEF MovingInv

(* Every step of the one worker keeps the invariant.                       *)
LEMMA MovingStep ==
    ASSUME IsFiniteSet(Path), \A u, v \in Worker : u = v, MovingInv, [Next]_vars
    PROVE  MovingInv'
<1>1. MadeInv /\ BaseInv /\ DOMAIN before = Worker /\ Rooted(remote)
      /\ \A w \in Worker : Checked(w) /\ RenameInv(w)
    BY DEF MovingInv, MadeInv
<1>2. MadeInv' /\ BaseInv'
    BY <1>1, MadeStep DEF MadeInv
<1>3. DOMAIN before' = Worker /\ Rooted(remote')
    <2>1. ASSUME NEW w \in Worker, Call(w) PROVE DOMAIN before' = Worker /\ Rooted(remote')
        <3>1. remote' = remote
            BY <2>1, CallKeeps DEF tree
        <3>2. before' = before \/ before' = [before EXCEPT ![w] = remote]
            BY <2>1 DEF Call, dfs_mkdir, dfs_mknod, dfs_rmdir, dfs_symlink, dfs_readlink,
                dfs_opendir, dfs_readdir, readdir_no_cell, dfs_unlink, dfs_rename, EnterWith
        <3> QED  BY <1>1, <3>1, <3>2
    <2>2. ASSUME NEW w \in Worker, Attempt(w) PROVE DOMAIN before' = Worker /\ Rooted(remote')
        <3>1. before' = before \/ before' = [before EXCEPT ![w] = NULL]
            BY <2>2 DEF Attempt
        <3> QED  BY <1>1, <2>2, <3>1, RootedAttempt
    <2>3. ASSUME NEW w \in Worker, Handler(w) PROVE DOMAIN before' = Worker /\ Rooted(remote')
        <3>1. remote' = remote
            BY <2>3, HandlerKeeps DEF tree
        <3> QED  BY <1>1, <2>3, <3>1, BeforeKeeps
    <2>4. ASSUME NEW p \in Cacheable, Cached(p) PROVE UNCHANGED <<before, remote>>
        BY <2>4 DEF Cached, tree, self
    <2>5. CASE UNCHANGED vars
        BY <1>1, <2>5 DEF vars, tree, self
    <2> QED  BY <1>1, <2>1, <2>2, <2>3, <2>4, <2>5 DEF Next
<1>4. ASSUME NEW w \in Worker PROVE RenameInv(w)'
    <2>0. RenameInv(w)
        BY <1>1
    <2>1. CASE Call(w)
        BY <1>1, <2>1, RenameCall
    <2>2. CASE Attempt(w)
        BY <1>1, <1>2, <2>0, <2>2, RenameAttempt
    <2>3. CASE Handler(w)
        BY <1>1, <1>2, <2>0, <2>3, RenameHandler
    <2>4. ASSUME NEW p \in Cacheable, Cached(p) PROVE UNCHANGED <<retryVars, tree, cwd, self>>
        BY <2>4 DEF Cached
    <2>5. CASE UNCHANGED vars
        BY <2>0, <2>5, RenameIdle DEF vars
    <2>6. \A v \in Worker : v = w
        OBVIOUS
    <2> QED  BY <2>0, <2>1, <2>2, <2>3, <2>4, <2>5, <2>6, RenameIdle DEF Next
<1>5. \A w \in Worker : Checked(w)'
    BY <1>1, CheckedStep
<1> QED  BY <1>2, <1>3, <1>4, <1>5 DEF MovingInv

(* RenameComplete: one worker's rename that reports success, none of its   *)
(* requests refused, onto a path that holds no directory with entries, has *)
(* moved everything below the old path, at every level of any tree of      *)
(* which no directory takes more buffers than the ring of tmpstr.c has     *)
(* but two, and has left nothing behind.                                   *)
THEOREM RenamesMove ==
    ASSUME \A v, w \in Worker : v = w, IsFiniteSet(Path)
    PROVE  Spec => []RenameComplete
<1>1. Init => MovingInv
    BY MovingInit
<1>2. MovingInv /\ [Next]_vars => MovingInv'
    BY MovingStep
<1>3. MovingInv => RenameComplete
    <2> SUFFICES ASSUME MovingInv, NEW w \in Worker, Succeeds(w, "rename"),
                        before[w] # NULL, Names(before[w], call[w].to) = {},
                        Fits(before[w], call[w].path),
                        NEW p \in Path, Under(call[w].path, p)
                 PROVE  /\ remote[p] = "absent"
                        /\ before[w][p] # "absent" =>
                             remote[Moved(p, call[w].path, call[w].to)] = before[w][p]
        BY DEF RenameComplete
    <2>1. Smooth(w) /\ pc[w] = "return"
        BY DEF Succeeds, Smooth
    <2>2. Begun(before[w], call[w]) /\ Arrived(w) /\ Rooted(remote)
        BY <2>1 DEF MovingInv, RenameInv
    <2>3. Moves(remote, before[w], call[w]) /\ remote[call[w].path] = "absent"
        BY <2>2 DEF Arrived
    <2>4. /\ remote[p] = "absent"
          /\ before[w][p] # "absent" => remote[New(p, call[w])] = before[w][p]
        BY <2>2, <2>3, MovesDone
    <2> QED  BY <2>4 DEF New
<1> QED  BY <1>1, <1>2, <1>3, PTL DEF Spec
=============================================================================
