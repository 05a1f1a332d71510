------------------------- MODULE CommandLine_proofs -------------------------
(***************************************************************************)
(* What holds of any session of commands, whatever its configurations,     *)
(* paths, options and data: access is as configured, exit codes tell what  *)
(* was delivered, and what one command has written the next one reads.     *)
(***************************************************************************)
EXTENDS CommandLine, SequenceTheorems, TLAPS

-----------------------------------------------------------------------------
(* Lists and their prefixes.                                               *)
LEMMA SeqIsList ==
  ASSUME NEW S, NEW s \in Seq(S)
  PROVE  IsList(s)
<1>1. \A i \in 1 .. Len(s) : s[i] \in Range(s)
  BY LenProperties DEF Range
<1>2. s = [i \in 1 .. Len(s) |-> s[i]] /\ Len(s) \in Nat
  BY LenProperties
<1> QED BY <1>1, <1>2 DEF IsList

LEMMA ListShape ==
  ASSUME NEW s, IsList(s)
  PROVE  Len(s) \in Nat /\ DOMAIN s = 1 .. Len(s)
BY LenProperties DEF IsList

LEMMA Together ==
  ASSUME NEW s, IsList(s), NEW t, IsList(t)
  PROVE  \E S : s \in Seq(S) /\ t \in Seq(S)
<1>1. s \in Seq(Range(s) \union Range(t)) /\ t \in Seq(Range(s) \union Range(t))
  BY SeqMonotonic DEF IsList
<1> QED BY <1>1

LEMMA ListConcat ==
  ASSUME NEW s, IsList(s), NEW t, IsList(t)
  PROVE  /\ IsList(s \o t) /\ Len(s \o t) = Len(s) + Len(t)
         /\ \A i \in 1 .. Len(s) + Len(t) :
              (s \o t)[i] = IF i <= Len(s) THEN s[i] ELSE t[i - Len(s)]
<1>1. PICK S : s \in Seq(S) /\ t \in Seq(S)
  BY Together
<1> QED BY <1>1, ConcatProperties, SeqIsList

LEMMA PrefixOf ==
  ASSUME NEW s, IsList(s), NEW t, IsList(t)
  PROVE  IsPrefix(s, t) <=> Len(s) <= Len(t) /\ \A i \in 1 .. Len(s) : s[i] = t[i]
<1>1. PICK S : s \in Seq(S) /\ t \in Seq(S)
  BY Together
<1>2. Len(s) \in Nat /\ Len(t) \in Nat
  BY ListShape
<1>3. SubSeq(s, 1, Len(s)) = s
  BY <1>1, SubSeqFull
<1>4. ASSUME Len(s) <= Len(t)
      PROVE  /\ SubSeq(t, 1, Len(s)) \in Seq(S) /\ Len(SubSeq(t, 1, Len(s))) = Len(s)
             /\ \A i \in 1 .. Len(s) : SubSeq(t, 1, Len(s))[i] = t[i]
  <2>1. \A i \in 1 .. Len(s) : t[i] \in S
    BY <1>1, <1>2, <1>4, ElementOfSeq
  <2> QED BY <1>2, <2>1, SubSeqProperties
<1>5. ASSUME Len(s) <= Len(t), \A i \in 1 .. Len(s) : s[i] = t[i]
      PROVE  IsPrefix(s, t)
  BY <1>1, <1>3, <1>4, <1>5, SeqEqual DEF IsPrefix
<1>6. ASSUME IsPrefix(s, t)
      PROVE  Len(s) <= Len(t) /\ \A i \in 1 .. Len(s) : s[i] = t[i]
  BY <1>3, <1>4, <1>6 DEF IsPrefix
<1> QED BY <1>5, <1>6

LEMMA PrefixOfConcat ==
  ASSUME NEW r, IsList(r), NEW s, IsList(s), NEW t, IsList(t), IsPrefix(s, t)
  PROVE  IsPrefix(r \o s, r \o t)
<1>1. Len(r) \in Nat /\ Len(s) \in Nat /\ Len(t) \in Nat
  BY ListShape
<1>2. Len(s) <= Len(t) /\ \A i \in 1 .. Len(s) : s[i] = t[i]
  BY PrefixOf
<1>3. ASSUME NEW i \in 1 .. Len(r) + Len(s) PROVE (r \o s)[i] = (r \o t)[i]
  <2>1. i \in 1 .. Len(r) + Len(t)
    BY <1>1, <1>2
  <2>2. i > Len(r) => i - Len(r) \in 1 .. Len(s)
    BY <1>1
  <2> QED BY <1>1, <1>2, <2>1, <2>2, ListConcat
<1>4. /\ IsList(r \o s) /\ Len(r \o s) = Len(r) + Len(s)
      /\ IsList(r \o t) /\ Len(r \o t) = Len(r) + Len(t)
  BY ListConcat
<1>5. Len(r) + Len(s) <= Len(r) + Len(t)
  BY <1>1, <1>2
<1> HIDE DEF IsPrefix
<1> QED BY <1>3, <1>4, <1>5, PrefixOf

LEMMA PrefixIsSubSeq ==
  ASSUME NEW s, IsList(s), NEW t, IsList(t), IsPrefix(s, t)
  PROVE  Len(s) \in 0 .. Len(t) /\ s = SubSeq(t, 1, Len(s))
BY ListShape, SubSeqFull DEF IsPrefix, IsList

LEMMA ListEnds ==
  ASSUME NEW s, IsList(s), s # <<>>
  PROVE  Append(Front(s), Last(s)) = s /\ Last(s) \in Range(s) /\ Len(s) - 1 \in 0 .. Len(s)
<1>1. PICK S : s \in Seq(S)
  BY DEF IsList
<1>2. Len(s) \in Nat \ {0} /\ DOMAIN s = 1 .. Len(s)
  BY <1>1, EmptySeq, LenProperties
<1> DEFINE n == Len(s) - 1
<1>3. n \in Nat /\ \A i \in 1 .. n : s[i] \in S
  BY <1>1, <1>2, ElementOfSeq
<1>4. s[Len(s)] \in S
  BY <1>1, <1>2, ElementOfSeq
<1> HIDE DEF n
<1>5. /\ SubSeq(s, 1, n) \in Seq(S) /\ Len(SubSeq(s, 1, n)) = n
      /\ \A i \in 1 .. n : SubSeq(s, 1, n)[i] = s[i]
  BY <1>3, SubSeqProperties
<1>6. Front(s) = SubSeq(s, 1, n) /\ Last(s) = s[Len(s)] /\ Len(s) = n + 1
  BY <1>2 DEF Front, Last, n
<1> DEFINE t == Append(SubSeq(s, 1, n), s[Len(s)])
<1>7. /\ t \in Seq(S) /\ Len(t) = n + 1 /\ t[n + 1] = s[Len(s)]
      /\ \A i \in 1 .. n : t[i] = SubSeq(s, 1, n)[i]
  BY <1>4, <1>5, AppendProperties
<1> HIDE DEF t
<1>8. \A i \in 1 .. Len(s) : t[i] = s[i]
  BY <1>3, <1>5, <1>6, <1>7
<1>9. t = s
  BY <1>1, <1>6, <1>7, <1>8, SeqEqual
<1> QED BY <1>2, <1>6, <1>9 DEF t, Range, n

LEMMA ListAppend ==
  ASSUME NEW s, IsList(s), NEW e
  PROVE  IsList(Append(s, e)) /\ e \in Range(Append(s, e))
<1>1. s \in Seq(Range(s) \union {e})
  BY SeqMonotonic DEF IsList
<1> DEFINE t == Append(s, e)
<1>2. t \in Seq(Range(s) \union {e}) /\ Len(t) = Len(s) + 1 /\ t[Len(s) + 1] = e
  BY <1>1, AppendProperties
<1> HIDE DEF t
<1>3. DOMAIN t = 1 .. Len(t) /\ Len(s) \in Nat
  BY <1>1, <1>2, LenProperties
<1>4. e \in Range(t)
  BY <1>2, <1>3 DEF Range
<1> QED BY <1>2, <1>4, SeqIsList DEF t

-----------------------------------------------------------------------------
(* Sessions, and what their configurations say.                            *)
InSession == session \in Sessions /\ turn \in 1 .. Len(session.commands)

LEMMA CommandShape ==
  ASSUME InSession
  PROVE  IsCommand(cmd)
<1>1. DOMAIN session.commands = 1 .. Len(session.commands)
  BY SessionsAssumption, ListShape DEF InSession
<1> QED BY <1>1, SessionsAssumption DEF InSession, cmd

LEMMA CwdIsList == IsList(Cwd)
BY SessionsAssumption DEF IsPath, At0

LEMMA PartsAreList ==
  ASSUME NEW path, IsPath(path)
  PROVE  IsList(Parts(path))
BY CwdIsList, ListConcat DEF Parts, IsPath

LEMMA RootsConfigured ==
  /\ config.readRoots = ConfiguredRoots("readRoots")
  /\ config.writeRoots = ConfiguredRoots("writeRoots")
<1>1. NoFile = [missing |-> TRUE] /\ "readRoots" \notin DOMAIN NoFile /\ "writeRoots" \notin DOMAIN NoFile
  BY DEF NoFile
<1> DEFINE given == IF cmd.config = NoFile THEN [s \in {} |-> 0] ELSE cmd.config
           other == Overlay(Defaults, given)
<1>2. DOMAIN RootsOf(given) = {"readRoots", "writeRoots"}
  BY DEF RootsOf
<1>3. config = [s \in DOMAIN RootsOf(given) \union DOMAIN other |->
                  IF s \in DOMAIN RootsOf(given) THEN RootsOf(given)[s] ELSE other[s]]
  BY DEF config, Settings
<1> HIDE DEF other
<1>4. config["readRoots"] = RootsOf(given)["readRoots"] /\ config["writeRoots"] = RootsOf(given)["writeRoots"]
  BY <1>2, <1>3
<1>5. \A kind \in {"readRoots", "writeRoots"} : RootsOf(given)[kind] = ConfiguredRoots(kind)
  BY DEF RootsOf, ConfiguredRoots
<1> QED BY <1>4, <1>5

LEMMA RootsShape ==
  ASSUME InSession, NEW kind \in {"readRoots", "writeRoots"}
  PROVE  LET roots == ConfiguredRoots(kind)
         IN  IsList(roots) /\ roots # <<>> /\ \A i \in DOMAIN roots : IsPath(roots[i])
<1> DEFINE here == At0(Cwd)
           out  == At0(Append(Cwd, OutputDirectory))
<1>1. IsPath(here) /\ IsPath(out)
  BY SessionsAssumption
<1> HIDE DEF here, out
<1>2. \A p : IsList(<<p>>) /\ <<p>> # <<>> /\ DOMAIN <<p>> = {1} /\ <<p>>[1] = p
  <2> TAKE p
  <2>1. <<p>> \in Seq({p})
    OBVIOUS
  <2>2. IsList(<<p>>)
    BY <2>1, SeqIsList
  <2>3. <<p>> # <<>> /\ DOMAIN <<p>> = 1 .. 1 /\ <<p>>[1] = p
    OBVIOUS
  <2> QED BY <2>2, <2>3
<1>3. WithCwdRoots[kind] = <<here>> \/ WithCwdRoots[kind] = <<out>>
  BY DEF WithCwdRoots, here, out
<1>4. LET roots == WithCwdRoots[kind]
      IN  IsList(roots) /\ roots # <<>> /\ \A i \in DOMAIN roots : IsPath(roots[i])
  BY <1>1, <1>2, <1>3
<1> QED BY <1>4, CommandShape DEF ConfiguredRoots, IsCommand

-----------------------------------------------------------------------------
(* What enforce_root says of a path is what its place says, unless it      *)
(* cannot place it.                                                        *)
LEMMA PlaceIsStraight ==
  ASSUME NEW path, IsPath(path)
  PROVE  IsList(Place(path)) /\ Resolved(Place(path)) = Place(path)
<1>1. IsList(Place(path)) /\ Len(Place(path)) \in 0 .. Len(Place(path))
  BY ListShape DEF IsPath, IsResolved, Place
<1>2. SubSeq(Place(path), 1, Len(Place(path))) = Place(path)
  BY <1>1, SubSeqFull DEF IsList
<1> QED BY <1>1, <1>2 DEF IsPath, IsResolved, Place

\* A straight path does not end elsewhere, and one that ends in ".." does.
LEMMA StraightEnd ==
  ASSUME NEW path, IsPath(path), Parts(path) # <<>>
  PROVE  /\ ~Winding(path) => ~Elsewhere(Parts(path)) /\ Last(Parts(path)) # Up
         /\ Last(Parts(path)) = Up => Elsewhere(Parts(path))
<1> DEFINE parts == Parts(path)
<1>1. IsList(parts)
  BY PartsAreList
<1>2. /\ Append(Front(parts), Last(parts)) = parts /\ Last(parts) \in Range(parts)
      /\ Len(parts) - 1 \in 0 .. Len(parts)
  BY <1>1, ListEnds
<1>3. IsResolved(parts)
  BY DEF IsPath
<1> HIDE DEF parts
<1>4. ASSUME Resolved(parts) = parts
      PROVE  ~Elsewhere(parts) /\ Last(parts) # Up
  <2>1. Resolved(Front(parts)) = Front(parts)
    BY <1>2, <1>3, <1>4 DEF IsResolved, Front
  <2> QED BY <1>2, <1>3, <1>4, <2>1 DEF IsResolved, Elsewhere
<1>5. ASSUME Last(parts) = Up
      PROVE  Elsewhere(parts)
  <2>1. Up \in Range(Append(Resolved(Front(parts)), Up))
    BY <1>3, ListAppend DEF IsResolved
  <2> QED BY <1>3, <1>5, <2>1 DEF IsResolved, Elsewhere
<1> QED BY <1>4, <1>5 DEF parts, Winding, Place

\* What canonicalize_or_parent makes of a path leads to the same place.
LEMMA CanonicalPlace ==
  ASSUME <<>> \in dirs, NEW path, IsPath(path),
         NEW canonical, canonical = Canonical(path, DOMAIN files, dirs)
  PROVE  /\ canonical.absolute \in BOOLEAN /\ IsList(canonical.parts)
         /\ Resolved(Parts(canonical)) = Place(path)
         /\ Parts(canonical) = Place(path) \/ (Loose(path) /\ Winding(path))
         /\ \/ canonical.absolute = TRUE /\ canonical.parts = Place(path)
            \/ Loose(path) /\ (Winding(path) \/ ~path.absolute)
<1> DEFINE parts == Parts(path)
           there == IsThere(parts, DOMAIN files, dirs)
           last  == Append(Resolved(Front(parts)), Last(parts))
<1>1. IsList(parts) /\ IsList(path.parts) /\ path.absolute \in BOOLEAN /\ IsResolved(parts)
  BY PartsAreList DEF IsPath
<1>2. IsList(Place(path)) /\ Resolved(Place(path)) = Place(path) /\ Place(path) = Resolved(parts)
  BY PlaceIsStraight DEF Place
<1>3. ASSUME parts = <<>> PROVE there
  <2>1. IsList(Resolved(parts)) /\ Len(Resolved(parts)) \in Nat
    BY <1>1, ListShape DEF IsResolved
  <2>2. Resolved(SubSeq(Resolved(parts), 1, 0)) = SubSeq(Resolved(parts), 1, 0)
    BY <1>1, <2>1 DEF IsResolved
  <2>3. SubSeq(Resolved(parts), 1, 0) = <<>>
    BY <2>1, SubSeqEmpty DEF IsList
  <2>4. Resolved(<<>>) \in dirs
    BY <2>2, <2>3
  <2>5. 0 .. Len(<<>>) - 1 = {}
    OBVIOUS
  <2> QED BY <1>3, <2>4, <2>5 DEF IsThere
<1>4. ASSUME ~there
      PROVE  /\ ~Winding(path) => ~Elsewhere(parts) /\ Last(parts) # Up
             /\ Last(parts) = Up => Elsewhere(parts)
  BY <1>3, <1>4, StraightEnd
<1>5. ASSUME ~there PROVE Resolved(last) = Place(path) /\ IsList(last)
  <2>1. IsList(last)
    BY <1>1, ListAppend DEF IsResolved
  <2>2. Resolved(last) = Resolved(parts)
    BY <1>1, <1>3, <1>5 DEF IsResolved
  <2> QED BY <1>2, <2>1, <2>2
<1>6. Loose(path) <=> ~there /\ (~IsThere(Front(parts), {}, dirs) \/ Elsewhere(parts))
  BY DEF Loose
<1>7. Elsewhere(parts) <=> Place(path) # last
  BY <1>2 DEF Elsewhere
<1>8. Winding(path) <=> Place(path) # parts
  BY DEF Winding
<1>9. IsThere(Front(parts), {}, dirs) => IsThere(Front(parts), DOMAIN files, dirs)
  BY DEF IsThere
<1> HIDE DEF there, last
<1>10. CASE there
  <2>1. canonical = At0(Place(path))
    BY <1>2, <1>10 DEF Canonical, there
  <2>2. canonical.absolute = TRUE /\ canonical.parts = Place(path) /\ Parts(canonical) = Place(path)
    BY <2>1 DEF At0, Parts
  <2> QED BY <1>2, <2>2
<1>11. CASE ~there /\ IsBare(path)
  <2>1. canonical = At0(parts)
    BY <1>11 DEF Canonical, there
  <2>2. ASSUME Winding(path) PROVE Elsewhere(parts)
    <3>1. path.absolute = FALSE /\ Len(path.parts) = 1 /\ parts = Cwd \o path.parts
      BY <1>1, <1>11 DEF IsBare, Parts
    <3>2. Len(Cwd) \in Nat /\ Len(parts) = Len(Cwd) + 1 /\ \A i \in 1 .. Len(Cwd) : parts[i] = Cwd[i]
      <4>1. Len(Cwd) \in Nat
        BY CwdIsList, ListShape
      <4> DEFINE t == Cwd \o path.parts
      <4>2. /\ Len(t) = Len(Cwd) + Len(path.parts)
            /\ \A i \in 1 .. Len(Cwd) + Len(path.parts) :
                 t[i] = IF i <= Len(Cwd) THEN Cwd[i] ELSE path.parts[i - Len(Cwd)]
        BY <1>1, CwdIsList, ListConcat
      <4> HIDE DEF t
      <4>3. Len(t) = Len(Cwd) + 1 /\ \A i \in 1 .. Len(Cwd) : t[i] = Cwd[i]
        BY <3>1, <4>1, <4>2
      <4> QED BY <3>1, <4>1, <4>3 DEF t
    <3>3. Front(parts) = Cwd
      <4>1. IsPrefix(Cwd, parts)
        BY <1>1, <3>2, CwdIsList, PrefixOf
      <4>2. Cwd = SubSeq(parts, 1, Len(Cwd))
        BY <1>1, <4>1, CwdIsList, PrefixIsSubSeq
      <4>3. Len(parts) - 1 = Len(Cwd)
        BY <3>2
      <4> QED BY <4>2, <4>3 DEF Front
    <3>4. Append(Front(parts), Last(parts)) = parts
      BY <1>1, <1>3, <1>11, ListEnds
    <3>5. last = parts
      BY <3>3, <3>4, SessionsAssumption DEF last
    <3> QED BY <1>7, <1>8, <2>2, <3>5
  <2>3. \A x : At0(x).absolute = TRUE /\ At0(x).parts = x /\ Parts(At0(x)) = x
    BY DEF At0, Parts
  <2>4. canonical.absolute = TRUE /\ canonical.parts = parts /\ Parts(canonical) = parts
    BY <2>1, <2>3
  <2> QED BY <1>1, <1>2, <1>6, <1>8, <1>11, <2>2, <2>4
<1>12. CASE ~there /\ ~IsBare(path) /\ IsThere(Front(parts), DOMAIN files, dirs) /\ Last(parts) # Up
  <2>1. canonical = At0(last)
    BY <1>12 DEF Canonical, there, last
  <2>2. canonical.absolute = TRUE /\ canonical.parts = last /\ Parts(canonical) = last
    BY <2>1 DEF At0, Parts
  <2> QED BY <1>4, <1>5, <1>6, <1>7, <1>12, <2>2
<1>13. CASE ~there /\ ~IsBare(path) /\ ~(IsThere(Front(parts), DOMAIN files, dirs) /\ Last(parts) # Up)
  <2>1. canonical = path
    BY <1>13 DEF Canonical, there
  <2>2. Loose(path)
    BY <1>4, <1>6, <1>9, <1>13
  <2>3. Resolved(Parts(canonical)) = Place(path) /\ Parts(canonical) = parts
    BY <1>2, <2>1
  <2>4. path.absolute => path.parts = parts
    BY DEF Parts
  <2> QED BY <1>1, <1>8, <2>1, <2>2, <2>3, <2>4
<1> QED BY <1>10, <1>11, <1>12, <1>13

LEMMA AllowedIsBelow ==
  ASSUME <<>> \in dirs, NEW path, IsPath(path),
         NEW roots, roots # <<>>, \A i \in DOMAIN roots : IsPath(roots[i]),
         IsAllowed(path, roots, DOMAIN files, dirs)
  PROVE  \/ Loose(path) /\ Winding(path)
         \/ \E i \in DOMAIN roots : IsBelow(Place(path), roots[i])
<1> DEFINE canonical == Canonical(path, DOMAIN files, dirs)
<1>1. PICK i, given :
        /\ i \in DOMAIN roots /\ given = roots[i]
        /\ LET root == Canonical(given, DOMAIN files, dirs)
           IN  root.absolute = canonical.absolute /\ IsPrefix(root.parts, canonical.parts)
  BY DEF IsAllowed
<1> DEFINE root == Canonical(given, DOMAIN files, dirs)
<1>2. IsPath(given)
  BY <1>1
<1>3. root.absolute = canonical.absolute /\ IsPrefix(root.parts, canonical.parts)
  BY <1>1
<1> HIDE DEF canonical, root
<1>4. /\ canonical.absolute \in BOOLEAN /\ IsList(canonical.parts)
      /\ Parts(canonical) = Place(path) \/ (Loose(path) /\ Winding(path))
  BY CanonicalPlace DEF canonical
<1>5. root.absolute \in BOOLEAN /\ IsList(root.parts) /\ Resolved(Parts(root)) = Place(given)
  BY <1>2, CanonicalPlace DEF root
<1>6. IsPrefix(Parts(root), Parts(canonical)) /\ IsList(Parts(root)) /\ IsList(Parts(canonical))
  <2>1. CASE root.absolute
    BY <1>3, <1>4, <1>5, <2>1 DEF Parts
  <2>2. CASE ~root.absolute
    <3>1. IsPrefix(Cwd \o root.parts, Cwd \o canonical.parts)
      BY <1>3, <1>4, <1>5, CwdIsList, PrefixOfConcat
    <3> QED BY <1>3, <1>4, <1>5, <2>2, <3>1, CwdIsList, ListConcat DEF Parts
  <2> QED BY <2>1, <2>2
<1>7. ASSUME Parts(canonical) = Place(path) PROVE IsBelow(Place(path), given)
  <2>1. Len(Parts(root)) \in 0 .. Len(Place(path)) /\ Parts(root) = SubSeq(Place(path), 1, Len(Parts(root)))
    BY <1>6, <1>7, PrefixIsSubSeq
  <2>2. Resolved(Parts(root)) = Parts(root)
    BY <2>1 DEF IsPath, IsResolved, Place
  <2> QED BY <1>5, <1>6, <1>7, <2>2 DEF IsBelow
<1> QED BY <1>1, <1>4, <1>7

LEMMA BelowIsAllowed ==
  ASSUME <<>> \in dirs, NEW path, IsPath(path),
         NEW roots, \A i \in DOMAIN roots : IsPath(roots[i]),
         ~IsAllowed(path, roots, DOMAIN files, dirs),
         NEW i \in DOMAIN roots, IsBelow(Place(path), roots[i])
  PROVE  \E p \in {path, roots[i]} : Loose(p) /\ (Winding(p) \/ ~p.absolute)
<1> SUFFICES ASSUME \A p \in {path, roots[i]} : ~(Loose(p) /\ (Winding(p) \/ ~p.absolute))
             PROVE  FALSE
  OBVIOUS
<1> DEFINE canonical == Canonical(path, DOMAIN files, dirs)
           root      == Canonical(roots[i], DOMAIN files, dirs)
<1>1. ~(root.absolute = canonical.absolute /\ IsPrefix(root.parts, canonical.parts))
  BY DEF IsAllowed
<1> HIDE DEF canonical, root
<1>2. canonical.absolute = TRUE /\ canonical.parts = Place(path)
  BY CanonicalPlace DEF canonical
<1>3. root.absolute = TRUE /\ root.parts = Place(roots[i])
  BY CanonicalPlace DEF root
<1> QED BY <1>1, <1>2, <1>3 DEF IsBelow

-----------------------------------------------------------------------------
(* A session runs its own commands; the root is a directory and no file.   *)
Grounded == InSession /\ <<>> \in dirs /\ Nowhere \notin DOMAIN files

LEMMA InitGrounded == Init => Grounded
<1> SUFFICES ASSUME Init PROVE Grounded
  OBVIOUS
<1>1. session \in Sessions /\ turn = 1 /\ dirs = session.dirs /\ files = session.files
  BY DEF Init
<1>2. session.commands # <<>> /\ IsList(session.commands)
  BY <1>1, SessionsAssumption
<1>3. 1 \in 1 .. Len(session.commands)
  BY <1>2, EmptySeq DEF IsList
<1> QED BY <1>1, <1>3, SessionsAssumption DEF Grounded, InSession

LEMMA GroundedStep == Grounded /\ [Next]_vars => Grounded'
<1> SUFFICES ASSUME Grounded, [Next]_vars PROVE Grounded'
  OBVIOUS
<1>1. CASE WriteOutput
  <2>1. <<>> \in dirs' /\ UNCHANGED <<session, turn>>
    BY <1>1 DEF WriteOutput, Only, WithParents, Grounded
  <2>2. UNCHANGED files \/ DOMAIN files' = DOMAIN files \union {Place(cmd.output)}
    BY <1>1 DEF WriteOutput, FilesWith
  <2>3. UNCHANGED files \/ Place(cmd.output) # Nowhere
    BY <1>1, <2>1 DEF WriteOutput, TakesBytes, Place, Nowhere
  <2>4. Nowhere' = Nowhere
    BY DEF Nowhere
  <2> QED BY <2>1, <2>2, <2>3, <2>4 DEF Grounded, InSession
<1>2. CASE NextCommand
  <2>1. turn' = turn + 1 /\ UNCHANGED <<session, dirs>> /\ turn < Len(session.commands)
    BY <1>2 DEF NextCommand
  <2>2. Len(session.commands) \in Nat
    BY SessionsAssumption, ListShape DEF Grounded, InSession
  <2>3. files' = Redirected /\ (cmd.redirect # Missing => Place(cmd.redirect) # Nowhere)
    BY <1>2, CommandShape DEF NextCommand, Grounded, IsCommand
  <2>4. Nowhere \notin DOMAIN files'
    BY <2>3 DEF Redirected, FilesWith, Grounded
  <2> QED BY <2>1, <2>2, <2>4 DEF Grounded, InSession, Nowhere
<1>3. CASE UNCHANGED <<session, turn, dirs, files>>
  BY <1>3 DEF Grounded, InSession, Nowhere
<1> QED BY <1>1, <1>2, <1>3 DEF Next, CheckDemand, ReadDocument, LoadStdin, LoadFile, DecodeSource,
   CheckRowLimit, CheckNestingDepth, StageFails, StagePasses, PlanIsAmbiguous, PlanIsReady,
   Transformed, Encode, CheckOutputBytes, Answer, Report, Verdict, EmitToStdout, WriteDenied,
   EndCommand, Check, Only, vars

\* At a stage that reads or writes, what can happen there.
LEMMA LoadStep ==
  ASSUME At("load"), Next
  PROVE  LoadStdin \/ LoadFile
<1>1. \A stage : At(stage) => stage = "load"
  BY DEF At
<1>2. exit = Running /\ todo # <<>> /\ Head(todo).do = "load" /\ Running # 0
  BY DEF At, Running
<1>3. Head(todo).do \notin DOMAIN Failures
  BY <1>2 DEF Failures
<1>4. ~EndCommand /\ ~NextCommand /\ ~StageFails
  BY <1>2, <1>3 DEF EndCommand, NextCommand, StageFails
<1>5. ~CheckDemand /\ ~CheckRowLimit /\ ~CheckNestingDepth /\ ~CheckOutputBytes /\ ~Verdict
  BY <1>1 DEF CheckDemand, CheckRowLimit, CheckNestingDepth, CheckOutputBytes, Verdict, Check
<1>6. ~ReadDocument /\ ~DecodeSource /\ ~StagePasses /\ ~PlanIsAmbiguous /\ ~PlanIsReady /\ ~Transformed
  BY <1>1 DEF ReadDocument, DecodeSource, StagePasses, PlanIsAmbiguous, PlanIsReady, Transformed
<1>7. ~Encode /\ ~Answer /\ ~Report /\ ~EmitToStdout /\ ~WriteDenied /\ ~WriteOutput
  BY <1>1 DEF Encode, Answer, Report, EmitToStdout, WriteDenied, WriteOutput
<1> QED BY <1>4, <1>5, <1>6, <1>7 DEF Next

LEMMA EmitStep ==
  ASSUME At("emit"), Next
  PROVE  EmitToStdout \/ WriteDenied \/ WriteOutput
<1>1. \A stage : At(stage) => stage = "emit"
  BY DEF At
<1>2. exit = Running /\ todo # <<>> /\ Head(todo).do = "emit" /\ Running # 0
  BY DEF At, Running
<1>3. Head(todo).do \notin DOMAIN Failures
  BY <1>2 DEF Failures
<1>4. ~EndCommand /\ ~NextCommand /\ ~StageFails
  BY <1>2, <1>3 DEF EndCommand, NextCommand, StageFails
<1>5. ~CheckDemand /\ ~CheckRowLimit /\ ~CheckNestingDepth /\ ~CheckOutputBytes /\ ~Verdict
  BY <1>1 DEF CheckDemand, CheckRowLimit, CheckNestingDepth, CheckOutputBytes, Verdict, Check
<1>6. ~ReadDocument /\ ~LoadStdin /\ ~LoadFile /\ ~DecodeSource /\ ~StagePasses
      /\ ~PlanIsAmbiguous /\ ~PlanIsReady /\ ~Transformed
  BY <1>1 DEF ReadDocument, LoadStdin, LoadFile, DecodeSource, StagePasses,
     PlanIsAmbiguous, PlanIsReady, Transformed
<1>7. ~Encode /\ ~Answer /\ ~Report
  BY <1>1 DEF Encode, Answer, Report
<1> QED BY <1>4, <1>5, <1>6, <1>7 DEF Next

LEMMA LoadAccess ==
  ASSUME Grounded, Next
  PROVE  AccessIsConfigured("load", cmd.input, "readRoots")
<1> DEFINE roots == ConfiguredRoots("readRoots")
           spot  == Place(cmd.input)
<1> SUFFICES ASSUME At("load"), cmd.input \notin {Stdin, Missing}
             PROVE  IF exit' = ExitCode.security
                    THEN \A i \in DOMAIN roots : IsBelow(spot, roots[i]) =>
                           \E p \in {cmd.input, roots[i]} : Loose(p) /\ (Winding(p) \/ ~p.absolute)
                    ELSE \/ Loose(cmd.input) /\ Winding(cmd.input) /\ exit' = ExitCode.io
                         \/ \E i \in DOMAIN roots : IsBelow(spot, roots[i])
  BY DEF AccessIsConfigured
<1>1. LoadFile
  BY LoadStep DEF LoadStdin
<1>2. IsPath(cmd.input) /\ <<>> \in dirs
  BY CommandShape DEF Grounded, IsCommand
<1>3. config.readRoots = roots /\ roots # <<>> /\ \A i \in DOMAIN roots : IsPath(roots[i])
  BY RootsConfigured, RootsShape DEF Grounded
<1> HIDE DEF roots
<1>4. CASE IsAllowed(cmd.input, roots, DOMAIN files, dirs)
  <2>1. \/ Loose(cmd.input) /\ Winding(cmd.input)
        \/ \E i \in DOMAIN roots : IsBelow(spot, roots[i])
    BY <1>2, <1>3, <1>4, AllowedIsBelow
  <2>2. exit' # ExitCode.security
    BY <1>1, <1>3, <1>4 DEF LoadFile, PassIf, Pass, Fail, ExitCode, At, Running
  <2>3. Loose(cmd.input) => exit' = ExitCode.io
    BY <1>1, <1>3, <1>4 DEF LoadFile, Fail, Loose, IsFile
  <2> QED BY <2>1, <2>2, <2>3
<1>5. CASE ~IsAllowed(cmd.input, roots, DOMAIN files, dirs)
  <2>1. exit' = ExitCode.security
    BY <1>1, <1>3, <1>5 DEF LoadFile, Fail
  <2>2. ASSUME NEW i \in DOMAIN roots, IsBelow(spot, roots[i])
        PROVE  \E p \in {cmd.input, roots[i]} : Loose(p) /\ (Winding(p) \/ ~p.absolute)
    BY <1>2, <1>3, <1>5, <2>2, BelowIsAllowed
  <2> QED BY <2>1, <2>2
<1> QED BY <1>4, <1>5

LEMMA EmitAccess ==
  ASSUME Grounded, Next
  PROVE  AccessIsConfigured("emit", cmd.output, "writeRoots")
<1> DEFINE roots == ConfiguredRoots("writeRoots")
           spot  == Place(cmd.output)
<1> SUFFICES ASSUME At("emit"), cmd.output \notin {Stdin, Missing}
             PROVE  IF exit' = ExitCode.security
                    THEN \A i \in DOMAIN roots : IsBelow(spot, roots[i]) =>
                           \E p \in {cmd.output, roots[i]} : Loose(p) /\ (Winding(p) \/ ~p.absolute)
                    ELSE \/ Loose(cmd.output) /\ Winding(cmd.output)
                         \/ \E i \in DOMAIN roots : IsBelow(spot, roots[i])
  BY DEF AccessIsConfigured
<1>1. WriteDenied \/ WriteOutput
  BY EmitStep DEF EmitToStdout
<1>2. IsPath(cmd.output) /\ <<>> \in dirs
  BY CommandShape DEF Grounded, IsCommand
<1>3. config.writeRoots = roots /\ roots # <<>> /\ \A i \in DOMAIN roots : IsPath(roots[i])
  BY RootsConfigured, RootsShape DEF Grounded
<1> HIDE DEF roots
<1>4. CASE WriteOutput
  <2>1. \/ Loose(cmd.output) /\ Winding(cmd.output)
        \/ \E i \in DOMAIN roots : IsBelow(spot, roots[i])
    BY <1>2, <1>3, <1>4, AllowedIsBelow DEF WriteOutput
  <2>2. exit' # ExitCode.security
    BY <1>4 DEF WriteOutput, Pass, Fail, ExitCode, At, Running
  <2> QED BY <2>1, <2>2
<1>5. CASE WriteDenied
  <2>1. exit' = ExitCode.security
    BY <1>5 DEF WriteDenied, Fail
  <2>2. ~IsAllowed(cmd.output, roots, DOMAIN files, dirs)
    BY <1>3, <1>5 DEF WriteDenied
  <2>3. ASSUME NEW i \in DOMAIN roots, IsBelow(spot, roots[i])
        PROVE  \E p \in {cmd.output, roots[i]} : Loose(p) /\ (Winding(p) \/ ~p.absolute)
    BY <1>2, <1>3, <2>2, <2>3, BelowIsAllowed
  <2> QED BY <2>1, <2>3
<1> QED BY <1>1, <1>4, <1>5

(***************************************************************************)
(* Whatever links there are and however paths wind: nothing is read from   *)
(* outside the roots that the configuration, or its default, names; output *)
(* is written below them but for a winding path that enforce_root cannot   *)
(* place; and what lies below them is denied only if it, or a root, cannot *)
(* be placed (enforce_root, canonicalize_or_parent).                       *)
(***************************************************************************)
THEOREM AccessConfigured == Spec => AccessAsConfigured
<1> DEFINE Allowed == /\ AccessIsConfigured("load", cmd.input, "readRoots")
                      /\ AccessIsConfigured("emit", cmd.output, "writeRoots")
<1>1. Init => Grounded
  BY InitGrounded
<1>2. Grounded /\ [Next]_vars => [Allowed]_vars
  BY LoadAccess, EmitAccess
<1> HIDE DEF Allowed
<1>3. Spec => [][Allowed]_vars
  BY <1>1, <1>2, GroundedStep, PTL DEF Spec
<1> QED BY <1>3 DEF AccessAsConfigured, Allowed

-----------------------------------------------------------------------------
(* The stages of a command: some that deliver nothing, then its closing.   *)
QuietNames == {"load", "decode", "rows", "depth", "infer", "planning", "execute", "check", "query"}

QuietStage ==
  [do: QuietNames]
    \union [do: {"demand"}, ok: BOOLEAN, kind: DOMAIN ExitCode]
    \union [do: {"document"}, path: {cmd.schema, cmd.plan, cmd.from}, is: {"schema", "plan"}]
Stage == QuietStage \union [do: {"report", "verdict", "answer", "encode", "size", "emit"}]

Makes == cmd.op \in {"convert", "transform", "query"}

Closing ==
  CASE cmd.op = "inspect"               -> Do("report")
    [] cmd.op = "validate"              -> Do("report") \o (IF cmd.plan # Missing THEN <<>> ELSE Do("verdict"))
    [] cmd.op \in {"schema", "plan"}    -> Do("answer") \o Do("emit")
    [] cmd.op \in {"transform", "query"} -> Delivery
    [] cmd.op = "convert"               -> Do("encode") \o Do("emit")

\* A decode comes after a load, and is not the first of a command's stages.
Paired(q) == \A i \in DOMAIN q : q[i].do = "decode" => i > 1 /\ q[i - 1].do = "load"
Openings  == {q \in Seq(QuietStage) : Paired(q)}

\* A demand among the stages that will not be met.
Blocked(q) == \E i \in DOMAIN q : q[i].do = "demand" /\ q[i].ok = FALSE
Opening(q) == q \in Seq(QuietStage) /\ (Makes /\ cmd.to \notin FormatIds => Blocked(q))

LEMMA OneStage ==
  /\ \A name \in QuietNames \ {"decode"} : Do(name) \in Openings
  /\ \A ok \in BOOLEAN, kind \in DOMAIN ExitCode : Demand(ok, kind) \in Openings
  /\ \A ok \in BOOLEAN : Require(ok) \in Openings
  /\ \A path \in {cmd.schema, cmd.plan, cmd.from}, kind \in {"schema", "plan"} :
       Read(path, kind) \in Openings
  /\ Blocked(Require(FALSE))
  /\ <<>> \in Openings
<1>1. \A x \in QuietStage : x.do # "decode" => <<x>> \in Openings
  <2>1. \A x \in QuietStage : <<x>> \in Seq(QuietStage) /\ DOMAIN <<x>> = {1} /\ <<x>>[1] = x
    OBVIOUS
  <2> HIDE DEF QuietStage
  <2> QED BY <2>1 DEF Openings, Paired
<1>2. "usage" \in DOMAIN ExitCode
  BY DEF ExitCode
<1>3. \A name \in QuietNames : [do |-> name] \in QuietStage /\ [do |-> name].do = name
  BY DEF QuietStage
<1>4. \A ok \in BOOLEAN, kind \in DOMAIN ExitCode : [do |-> "demand", ok |-> ok, kind |-> kind] \in QuietStage
  BY DEF QuietStage
<1>5. \A path \in {cmd.schema, cmd.plan, cmd.from}, kind \in {"schema", "plan"} :
        [do |-> "document", path |-> path, is |-> kind] \in QuietStage
  BY DEF QuietStage
<1>6. Blocked(Require(FALSE))
  BY DEF Blocked, Require, Demand
<1>7. <<>> \in Openings
  BY DEF Openings, Paired
<1> HIDE DEF QuietStage
<1>8. \A ok \in BOOLEAN, kind \in DOMAIN ExitCode : Demand(ok, kind) \in Openings
  BY <1>1, <1>4 DEF Demand
<1> QED BY <1>1, <1>2, <1>3, <1>5, <1>6, <1>7, <1>8 DEF Do, Read, Require

\* The demands of the commands.
LEMMA DemandStages ==
  /\ ToIsFormat \in Openings /\ (cmd.to \notin FormatIds => Blocked(ToIsFormat))
  /\ ModeParses \in Openings /\ InferParses \in Openings
  /\ Require(cmd.input # Missing) \in Openings
  /\ Require(cmd.schema # Missing) \in Openings
  /\ Require(cmd.sql # Missing) \in Openings
  /\ Demand(cmd.config # Absent, "io") \in Openings
  /\ Demand(cmd.config # Malformed, "parse") \in Openings
<1>1. \A ok \in BOOLEAN : Require(ok) \in Openings
  BY OneStage
<1>2. \A ok \in BOOLEAN : Demand(ok, "io") \in Openings /\ Demand(ok, "parse") \in Openings
  BY OneStage DEF ExitCode
<1> DEFINE to    == cmd.to \in FormatIds
           mode  == cmd.mode \in {"strict", "smart"}
           infer == cmd.infer \in InferModes
<1>bool. to \in BOOLEAN /\ mode \in BOOLEAN /\ infer \in BOOLEAN
  OBVIOUS
<1>same. ToIsFormat = Require(to) /\ ModeParses = Require(mode) /\ InferParses = Require(infer)
  BY DEF ToIsFormat, ModeParses, InferParses
<1>unmet. cmd.to \notin FormatIds => to = FALSE
  OBVIOUS
<1> HIDE DEF to, mode, infer
<1>3. ToIsFormat \in Openings
  BY <1>1, <1>bool, <1>same
<1>4. ASSUME cmd.to \notin FormatIds PROVE Blocked(ToIsFormat)
  BY <1>4, <1>same, <1>unmet, OneStage
<1>5. ModeParses \in Openings
  BY <1>1, <1>bool, <1>same
<1>6. InferParses \in Openings
  BY <1>1, <1>bool, <1>same
<1>7. Require(cmd.input # Missing) \in Openings
  BY <1>1
<1>8. Require(cmd.schema # Missing) \in Openings
  BY <1>1
<1>9. Require(cmd.sql # Missing) \in Openings
  BY <1>1
<1>10. Demand(cmd.config # Absent, "io") \in Openings
  BY <1>2
<1>11. Demand(cmd.config # Malformed, "parse") \in Openings
  BY <1>2
<1> QED BY <1>3, <1>4, <1>5, <1>6, <1>7, <1>8, <1>9, <1>10, <1>11

LEMMA MoreStages ==
  ASSUME NEW a \in Openings, NEW b \in Openings
  PROVE  a \o b \in Openings /\ (Blocked(a) \/ Blocked(b) => Blocked(a \o b))
<1>list. a \in Seq(QuietStage) /\ b \in Seq(QuietStage) /\ Paired(a) /\ Paired(b)
  BY DEF Openings
<1>1. /\ a \o b \in Seq(QuietStage) /\ Len(a \o b) = Len(a) + Len(b)
      /\ \A i \in 1 .. Len(a) + Len(b) : (a \o b)[i] = IF i <= Len(a) THEN a[i] ELSE b[i - Len(a)]
  BY <1>list, ConcatProperties
<1>2. /\ DOMAIN a = 1 .. Len(a) /\ Len(a) \in Nat /\ DOMAIN b = 1 .. Len(b) /\ Len(b) \in Nat
      /\ DOMAIN (a \o b) = 1 .. Len(a \o b)
  BY <1>list, <1>1, LenProperties
<1>3. ASSUME Blocked(a) PROVE Blocked(a \o b)
  <2>1. PICK i \in 1 .. Len(a) : a[i].do = "demand" /\ a[i].ok = FALSE
    BY <1>2, <1>3 DEF Blocked
  <2>2. i \in DOMAIN (a \o b) /\ (a \o b)[i] = a[i]
    BY <1>1, <1>2
  <2> QED BY <2>1, <2>2 DEF Blocked
<1>4. ASSUME Blocked(b) PROVE Blocked(a \o b)
  <2>1. PICK i \in 1 .. Len(b) : b[i].do = "demand" /\ b[i].ok = FALSE
    BY <1>2, <1>4 DEF Blocked
  <2>2. i + Len(a) \in 1 .. Len(a) + Len(b) /\ ~(i + Len(a) <= Len(a)) /\ i + Len(a) - Len(a) = i
    BY <1>2
  <2>3. i + Len(a) \in DOMAIN (a \o b) /\ (a \o b)[i + Len(a)] = b[i]
    BY <1>1, <1>2, <2>2
  <2> QED BY <2>1, <2>3 DEF Blocked
<1>5. ASSUME NEW i \in DOMAIN (a \o b), (a \o b)[i].do = "decode"
      PROVE  i > 1 /\ (a \o b)[i - 1].do = "load"
  <2>1. CASE i <= Len(a)
    <3>1. i \in DOMAIN a /\ a[i].do = "decode"
      BY <1>1, <1>2, <1>5, <2>1
    <3>2. i > 1 /\ a[i - 1].do = "load"
      BY <1>list, <3>1 DEF Paired
    <3>3. i - 1 \in 1 .. Len(a) + Len(b) /\ i - 1 <= Len(a)
      BY <1>1, <1>2, <2>1, <3>2
    <3> QED BY <1>1, <3>2, <3>3
  <2>2. CASE ~(i <= Len(a))
    <3> DEFINE k == i - Len(a)
    <3>1. k \in DOMAIN b /\ b[k].do = "decode"
      BY <1>1, <1>2, <1>5, <2>2
    <3>2. k > 1 /\ b[k - 1].do = "load"
      BY <1>list, <3>1 DEF Paired
    <3>3. i - 1 \in 1 .. Len(a) + Len(b) /\ ~(i - 1 <= Len(a)) /\ i - 1 - Len(a) = k - 1 /\ i > 1
      BY <1>1, <1>2, <2>2, <3>2
    <3> QED BY <1>1, <3>2, <3>3
  <2> QED BY <2>1, <2>2
<1> QED BY <1>1, <1>3, <1>4, <1>5 DEF Openings, Paired

LEMMA SomeStages ==
  /\ \A name \in QuietNames \union {"report", "verdict", "answer", "encode", "size", "emit"} :
       Do(name) \in Seq(Stage)
  /\ \A q \in Seq(QuietStage) : q \in Seq(Stage)
<1>1. \A x \in Stage : <<x>> \in Seq(Stage)
  OBVIOUS
<1>2. \A name \in QuietNames \union {"report", "verdict", "answer", "encode", "size", "emit"} :
        [do |-> name] \in Stage
  BY DEF Stage, QuietStage
<1>3. QuietStage \subseteq Stage
  BY DEF Stage
<1> QED BY <1>1, <1>2, <1>3, SeqMonotonic DEF Do

LEMMA TwoStages ==
  ASSUME NEW a, NEW b
  PROVE  <<a>> \o <<b>> = <<a, b>>
<1> DEFINE S == {a, b}
<1>1. <<a>> \in Seq(S) /\ <<b>> \in Seq(S) /\ <<a, b>> \in Seq(S)
  OBVIOUS
<1>2. /\ <<a>> \o <<b>> \in Seq(S) /\ Len(<<a>> \o <<b>>) = 1 + 1
      /\ \A i \in 1 .. 1 + 1 : (<<a>> \o <<b>>)[i] = IF i <= 1 THEN <<a>>[i] ELSE <<b>>[i - 1]
  BY <1>1, ConcatProperties
<1>3. Len(<<a, b>>) = 2 /\ <<a, b>>[1] = a /\ <<a, b>>[2] = b /\ <<a>>[1] = a /\ <<b>>[1] = b
  OBVIOUS
<1>4. (<<a>> \o <<b>>)[1] = a /\ (<<a>> \o <<b>>)[2] = b
  BY <1>2, <1>3
<1>5. \A i \in 1 .. 2 : (<<a>> \o <<b>>)[i] = <<a, b>>[i]
  BY <1>3, <1>4
<1> DEFINE s == <<a>> \o <<b>>
           t == <<a, b>>
<1>6. s \in Seq(S) /\ t \in Seq(S) /\ Len(s) = Len(t) /\ \A i \in 1 .. Len(s) : s[i] = t[i]
  BY <1>1, <1>2, <1>3, <1>5
<1> HIDE DEF S, s, t
<1>7. s = t
  BY <1>6, SeqEqual
<1> QED BY <1>7 DEF s, t

LEMMA LoadsQuietly ==
  /\ Do("load") \o Do("decode") \in Openings
  /\ LoadRows \in Openings /\ InferRows \in Openings
<1> DEFINE load == [do |-> "load"]
           decode == [do |-> "decode"]
           both == <<load, decode>>
<1>1. load \in QuietStage /\ decode \in QuietStage /\ load.do = "load"
  BY DEF QuietStage, QuietNames
<1>2. Do("load") \o Do("decode") = both
  BY TwoStages DEF Do
<1>3. both[1] = load /\ both[2] = decode /\ Len(both) = 2
  OBVIOUS
<1> HIDE DEF QuietStage, load, decode
<1>4. both \in Seq(QuietStage) /\ DOMAIN both = {1, 2}
  BY <1>1
<1> HIDE DEF both
<1>5. \A i \in DOMAIN both : both[i].do = "decode" => i > 1 /\ both[i - 1].do = "load"
  <2>1. both[1].do # "decode" /\ both[2 - 1].do = "load"
    BY <1>1, <1>3
  <2> QED BY <1>4, <2>1
<1>6. Do("load") \o Do("decode") \in Openings
  BY <1>2, <1>4, <1>5 DEF Openings, Paired
<1>7. Do("rows") \in Openings /\ Do("infer") \in Openings
  BY OneStage DEF QuietNames
<1>8. (Do("load") \o Do("decode")) \o Do("rows") \in Openings
  BY <1>6, <1>7, MoreStages
<1>9. ((Do("load") \o Do("decode")) \o Do("rows")) \o Do("infer") \in Openings
  BY <1>7, <1>8, MoreStages
<1> QED BY <1>6, <1>8, <1>9 DEF LoadRows, InferRows

Leads(stages) == \E q \in Openings : Opening(q) /\ stages = q \o Closing

\* What comes before the closing, in a command that makes an output of a format.
LEMMA Regrouped ==
  ASSUME NEW q \in Openings, NEW a \in Seq(Stage), NEW b \in Seq(Stage)
  PROVE  (q \o a) \o b = q \o (a \o b)
BY SomeStages, ConcatAssociative DEF Openings

LEMMA ConvertLeads ==
  ASSUME cmd.op = "convert"
  PROVE  Leads(CommandStages)
<1> DEFINE q == ToIsFormat \o LoadRows
<1>1. ToIsFormat \in Openings /\ (cmd.to \notin FormatIds => Blocked(ToIsFormat))
  BY OneStage, DemandStages
<1>2. q \in Openings /\ Opening(q)
  BY <1>1, LoadsQuietly, MoreStages DEF Opening, Openings
<1>3. CommandStages = (q \o Do("encode")) \o Do("emit")
  BY DEF CommandStages
<1>4. Closing = Do("encode") \o Do("emit")
  BY DEF Closing
<1> HIDE DEF q
<1>5. CommandStages = q \o Closing
  BY <1>2, <1>3, <1>4, SomeStages, Regrouped
<1> QED BY <1>2, <1>5 DEF Leads

LEMMA QueryLeads ==
  ASSUME cmd.op = "query"
  PROVE  Leads(CommandStages)
<1> DEFINE a == Require(cmd.sql # Missing) \o ToIsFormat
           b == a \o LoadRows
           c == b \o Do("query")
           q == c \o Do("rows")
<1>1. /\ ToIsFormat \in Openings /\ (cmd.to \notin FormatIds => Blocked(ToIsFormat))
      /\ Require(cmd.sql # Missing) \in Openings
      /\ Do("query") \in Openings /\ Do("rows") \in Openings
  BY OneStage, DemandStages DEF QuietNames
<1>2. a \in Openings /\ (cmd.to \notin FormatIds => Blocked(a))
  BY <1>1, MoreStages
<1> HIDE DEF a
<1>3. b \in Openings /\ (cmd.to \notin FormatIds => Blocked(b))
  BY <1>2, LoadsQuietly, MoreStages
<1> HIDE DEF b
<1>4. c \in Openings /\ (cmd.to \notin FormatIds => Blocked(c))
  BY <1>1, <1>3, MoreStages
<1> HIDE DEF c
<1>5. q \in Openings /\ (cmd.to \notin FormatIds => Blocked(q))
  BY <1>1, <1>4, MoreStages
<1>6. CommandStages = q \o Delivery /\ Closing = Delivery
  BY DEF CommandStages, Closing, a, b, c
<1> QED BY <1>5, <1>6 DEF Leads, Opening, Openings

LEMMA TransformLeads ==
  ASSUME cmd.op = "transform"
  PROVE  Leads(CommandStages)
<1> DEFINE planned == IF cmd.plan # Missing THEN <<>>
                      ELSE Require(cmd.schema # Missing) \o Do("infer") \o Do("planning")
           checked == IF cmd.schema = Missing THEN <<>> ELSE Do("check")
           a == Read(cmd.plan, "plan") \o Read(cmd.schema, "schema")
           b == a \o ToIsFormat
           c == b \o ModeParses
           d == c \o LoadRows
           e == d \o Do("depth")
           f == e \o planned
           g == f \o Do("execute")
           q == g \o checked
<1>1. /\ ToIsFormat \in Openings /\ (cmd.to \notin FormatIds => Blocked(ToIsFormat))
      /\ ModeParses \in Openings /\ Require(cmd.schema # Missing) \in Openings
      /\ Read(cmd.plan, "plan") \in Openings /\ Read(cmd.schema, "schema") \in Openings
  BY OneStage, DemandStages
<1>2. /\ Do("infer") \in Openings /\ Do("planning") \in Openings
      /\ Do("check") \in Openings /\ Do("execute") \in Openings
      /\ Do("depth") \in Openings /\ <<>> \in Openings
  BY OneStage DEF QuietNames
<1>3. planned \in Openings /\ checked \in Openings
  <2>1. Require(cmd.schema # Missing) \o Do("infer") \in Openings
    BY <1>1, <1>2, MoreStages
  <2>2. (Require(cmd.schema # Missing) \o Do("infer")) \o Do("planning") \in Openings
    BY <1>2, <2>1, MoreStages
  <2> QED BY <1>2, <2>2
<1> HIDE DEF planned, checked
<1>4. a \in Openings
  BY <1>1, MoreStages
<1> HIDE DEF a
<1>5. b \in Openings /\ (cmd.to \notin FormatIds => Blocked(b))
  BY <1>1, <1>4, MoreStages
<1> HIDE DEF b
<1>6. c \in Openings /\ (cmd.to \notin FormatIds => Blocked(c))
  BY <1>1, <1>5, MoreStages
<1> HIDE DEF c
<1>7. d \in Openings /\ (cmd.to \notin FormatIds => Blocked(d))
  BY <1>6, LoadsQuietly, MoreStages
<1> HIDE DEF d
<1>8. e \in Openings /\ (cmd.to \notin FormatIds => Blocked(e))
  BY <1>2, <1>7, MoreStages
<1> HIDE DEF e
<1>9. f \in Openings /\ (cmd.to \notin FormatIds => Blocked(f))
  BY <1>3, <1>8, MoreStages
<1> HIDE DEF f
<1>10. g \in Openings /\ (cmd.to \notin FormatIds => Blocked(g))
  BY <1>2, <1>9, MoreStages
<1> HIDE DEF g
<1>11. q \in Openings /\ (cmd.to \notin FormatIds => Blocked(q))
  BY <1>3, <1>10, MoreStages
<1>12. CommandStages = q \o Delivery /\ Closing = Delivery
  BY DEF CommandStages, TransformStages, Closing, planned, checked, a, b, c, d, e, f, g
<1> QED BY <1>11, <1>12 DEF Leads, Opening, Openings

\* The commands whose output has no format.
LEMMA OthersMakeNothing ==
  ASSUME cmd.op \in {"inspect", "schema", "plan", "validate"}, NEW q \in Openings
  PROVE  Opening(q)
BY DEF Opening, Openings, Makes

LEMMA InspectLeads ==
  ASSUME cmd.op = "inspect"
  PROVE  Leads(CommandStages)
<1>1. InferParses \in Openings
  BY OneStage, DemandStages
<1>2. InferParses \o InferRows \in Openings
  BY <1>1, LoadsQuietly, MoreStages
<1>3. CommandStages = (InferParses \o InferRows) \o Closing
  BY DEF CommandStages, Closing
<1> QED BY <1>2, <1>3, OthersMakeNothing DEF Leads

LEMMA SchemaLeads ==
  ASSUME cmd.op = "schema"
  PROVE  Leads(CommandStages)
<1> DEFINE a == Require(cmd.input # Missing) \o InferParses
           b == a \o InferRows
           q == IF cmd.schema # Missing THEN Read(cmd.schema, "schema") ELSE b
<1>1. /\ InferParses \in Openings /\ Require(cmd.input # Missing) \in Openings
      /\ Read(cmd.schema, "schema") \in Openings
  BY OneStage, DemandStages
<1>2. a \in Openings
  BY <1>1, MoreStages
<1> HIDE DEF a
<1>3. b \in Openings
  BY <1>2, LoadsQuietly, MoreStages
<1> HIDE DEF b
<1>4. q \in Openings
  BY <1>1, <1>3
<1>5. CommandStages = (q \o Do("answer")) \o Do("emit")
  BY DEF CommandStages, a, b
<1>6. Closing = Do("answer") \o Do("emit")
  BY DEF Closing
<1> HIDE DEF q
<1>7. CommandStages = q \o Closing
  BY <1>4, <1>5, <1>6, SomeStages, Regrouped
<1> QED BY <1>4, <1>7, OthersMakeNothing DEF Leads

LEMMA PlanLeads ==
  ASSUME cmd.op = "plan"
  PROVE  Leads(CommandStages)
<1> DEFINE loaded == IF cmd.from # Missing THEN <<>> ELSE Require(cmd.input # Missing) \o InferRows
           a == Require(cmd.schema # Missing) \o Read(cmd.schema, "schema")
           b == a \o Read(cmd.from, "schema")
           c == b \o ModeParses
           d == c \o loaded
           q == d \o Do("planning")
<1>1. /\ ModeParses \in Openings /\ Require(cmd.input # Missing) \in Openings
      /\ Require(cmd.schema # Missing) \in Openings
      /\ Read(cmd.schema, "schema") \in Openings /\ Read(cmd.from, "schema") \in Openings
      /\ Do("planning") \in Openings /\ <<>> \in Openings
  BY OneStage, DemandStages DEF QuietNames
<1>2. loaded \in Openings
  BY <1>1, LoadsQuietly, MoreStages
<1> HIDE DEF loaded
<1>3. a \in Openings
  BY <1>1, MoreStages
<1> HIDE DEF a
<1>4. b \in Openings
  BY <1>1, <1>3, MoreStages
<1> HIDE DEF b
<1>5. c \in Openings
  BY <1>1, <1>4, MoreStages
<1> HIDE DEF c
<1>6. d \in Openings
  BY <1>2, <1>5, MoreStages
<1> HIDE DEF d
<1>7. q \in Openings
  BY <1>1, <1>6, MoreStages
<1>8. CommandStages = (q \o Do("answer")) \o Do("emit")
  BY DEF CommandStages, loaded, a, b, c, d
<1>9. Closing = Do("answer") \o Do("emit")
  BY DEF Closing
<1> HIDE DEF q
<1>10. CommandStages = q \o Closing
  BY <1>7, <1>8, <1>9, SomeStages, Regrouped
<1> QED BY <1>7, <1>10, OthersMakeNothing DEF Leads

LEMMA ValidateLeads ==
  ASSUME cmd.op = "validate"
  PROVE  Leads(CommandStages)
<1> DEFINE needs  == Require(cmd.input # Missing) \o Require(cmd.schema # Missing)
           loads  == Do("load") \o Do("decode")
           loaded == IF cmd.plan # Missing THEN <<>> ELSE needs \o loads
           verdict == IF cmd.plan # Missing THEN <<>> ELSE Do("verdict")
           a == Read(cmd.schema, "schema") \o Read(cmd.plan, "plan")
           q == a \o loaded
<1>1. /\ Require(cmd.input # Missing) \in Openings /\ Require(cmd.schema # Missing) \in Openings
      /\ Read(cmd.schema, "schema") \in Openings /\ Read(cmd.plan, "plan") \in Openings
      /\ <<>> \in Openings
  BY OneStage, DemandStages
<1>2. needs \in Openings
  BY <1>1, MoreStages
<1>regrouped. (needs \o Do("load")) \o Do("decode") = needs \o loads
  <2> HIDE DEF needs
  <2>1. needs \in Seq(Stage) /\ Do("load") \in Seq(Stage) /\ Do("decode") \in Seq(Stage)
    BY <1>2, SomeStages DEF Openings, QuietNames
  <2> QED BY <2>1, ConcatAssociative
<1>unfolded. Require(cmd.input # Missing) \o Require(cmd.schema # Missing) \o Do("load") \o Do("decode")
               = needs \o loads
  BY <1>regrouped
<1> HIDE DEF needs
<1>3. loads \in Openings
  BY LoadsQuietly
<1> HIDE DEF loads
<1>4. loaded \in Openings
  BY <1>1, <1>2, <1>3, MoreStages
<1> HIDE DEF loaded
<1>5. a \in Openings
  BY <1>1, MoreStages
<1> HIDE DEF a
<1>6. q \in Openings
  BY <1>4, <1>5, MoreStages
<1>7. CommandStages = (q \o Do("report")) \o verdict
  BY <1>unfolded DEF CommandStages, loaded, a
<1>8. Closing = Do("report") \o verdict
  BY DEF Closing
<1>9. verdict \in Seq(Stage)
  BY SomeStages
<1> HIDE DEF q, verdict
<1>10. CommandStages = q \o Closing
  BY <1>6, <1>7, <1>8, <1>9, SomeStages, Regrouped
<1> QED BY <1>6, <1>10, OthersMakeNothing DEF Leads

\* A closing, stage by stage.
Closings ==
  /\ cmd.op = "inspect" => Closing = <<[do |-> "report"]>>
  /\ cmd.op = "validate" =>
       Closing \in {<<[do |-> "report"]>>, <<[do |-> "report"], [do |-> "verdict"]>>}
  /\ cmd.op \in {"schema", "plan"} => Closing = <<[do |-> "answer"], [do |-> "emit"]>>
  /\ cmd.op \in {"transform", "query"} =>
       Closing = <<[do |-> "encode"], [do |-> "size"], [do |-> "emit"]>>
  /\ cmd.op = "convert" => Closing = <<[do |-> "encode"], [do |-> "emit"]>>

LEMMA ThreeStages ==
  ASSUME NEW a, NEW b, NEW c
  PROVE  <<a>> \o (<<b>> \o <<c>>) = <<a, b, c>> /\ (<<a>> \o <<b>>) \o <<c>> = <<a, b, c>>
<1> DEFINE S == {a, b, c}
           r == <<a>>
           t == <<b, c>>
           u == <<a, b, c>>
<1>1. r \in Seq(S) /\ <<a>> \in Seq(S) /\ <<b>> \in Seq(S) /\ <<c>> \in Seq(S) /\ t \in Seq(S) /\ u \in Seq(S)
  OBVIOUS
<1>2. Len(r) = 1 /\ r[1] = a /\ Len(t) = 2 /\ t[1] = b /\ t[2] = c
      /\ Len(u) = 3 /\ u[1] = a /\ u[2] = b /\ u[3] = c
  OBVIOUS
<1> HIDE DEF S, r, t, u
<1>3. /\ r \o t \in Seq(S) /\ Len(r \o t) = Len(r) + Len(t)
      /\ \A i \in 1 .. Len(r) + Len(t) : (r \o t)[i] = IF i <= Len(r) THEN r[i] ELSE t[i - Len(r)]
  BY <1>1, ConcatProperties
<1>4. Len(r \o t) = 3 /\ (r \o t)[1] = a /\ (r \o t)[2] = b /\ (r \o t)[3] = c
  BY <1>2, <1>3
<1>5. \A i \in 1 .. Len(r \o t) : (r \o t)[i] = u[i]
  <2>1. \A i \in 1 .. 3 : i = 1 \/ i = 2 \/ i = 3
    OBVIOUS
  <2> QED BY <1>2, <1>4, <2>1
<1>6. r \o t = u
  BY <1>1, <1>2, <1>3, <1>4, <1>5, SeqEqual
<1>7. t = <<b>> \o <<c>>
  BY TwoStages DEF t
<1>8. (<<a>> \o <<b>>) \o <<c>> = <<a>> \o (<<b>> \o <<c>>)
  BY <1>1, ConcatAssociative
<1> QED BY <1>6, <1>7, <1>8 DEF r, u

LEMMA ClosingIs == Closings
<1>1. \A a, b : <<a>> \o <<b>> = <<a, b>>
  BY TwoStages
<1>2. \A a, b, c : <<a>> \o <<b>> \o <<c>> = <<a, b, c>>
  BY ThreeStages
<1>3. Delivery = <<[do |-> "encode"], [do |-> "size"], [do |-> "emit"]>>
  BY <1>2 DEF Delivery, Do
<1>4. <<[do |-> "report"]>> \o <<>> = <<[do |-> "report"]>>
  <2>1. <<[do |-> "report"]>> \in Seq({[do |-> "report"]})
    OBVIOUS
  <2> QED BY <2>1, ConcatEmptySeq
<1> QED BY <1>1, <1>3, <1>4 DEF Closings, Closing, Do

LEMMA ClosingStages ==
  ASSUME IsCommand(cmd)
  PROVE  Closing \in Seq(Stage) /\ Closing # <<>>
<1> DEFINE report == [do |-> "report"]  verdict == [do |-> "verdict"]  answer == [do |-> "answer"]
           encode == [do |-> "encode"]  size == [do |-> "size"]        emit == [do |-> "emit"]
<1>1. {report, verdict, answer, encode, size, emit} \subseteq Stage
  BY DEF Stage
<1>2. /\ cmd.op = "inspect" => Closing = <<report>>
      /\ cmd.op = "validate" => Closing \in {<<report>>, <<report, verdict>>}
      /\ cmd.op \in {"schema", "plan"} => Closing = <<answer, emit>>
      /\ cmd.op \in {"transform", "query"} => Closing = <<encode, size, emit>>
      /\ cmd.op = "convert" => Closing = <<encode, emit>>
  BY ClosingIs DEF Closings
<1> HIDE DEF Stage, report, verdict, answer, encode, size, emit
<1>3. /\ <<report>> \in Seq(Stage) /\ <<report, verdict>> \in Seq(Stage) /\ <<answer, emit>> \in Seq(Stage)
      /\ <<encode, size, emit>> \in Seq(Stage) /\ <<encode, emit>> \in Seq(Stage)
  BY <1>1
<1>4. /\ <<report>> # <<>> /\ <<report, verdict>> # <<>> /\ <<answer, emit>> # <<>>
      /\ <<encode, size, emit>> # <<>> /\ <<encode, emit>> # <<>>
  OBVIOUS
<1> QED BY <1>2, <1>3, <1>4 DEF IsCommand

LEMMA StagesLead == IsCommand(cmd) => Leads(Stages)
<1> SUFFICES ASSUME IsCommand(cmd) PROVE Leads(Stages)
  OBVIOUS
<1>1. Leads(CommandStages)
  BY ConvertLeads, QueryLeads, TransformLeads, InspectLeads, SchemaLeads, PlanLeads, ValidateLeads
  DEF IsCommand
<1>2. PICK q \in Openings : Opening(q) /\ CommandStages = q \o Closing
  BY <1>1 DEF Leads
<1> DEFINE there  == Demand(cmd.config # Absent, "io")
           formed == Demand(cmd.config # Malformed, "parse")
           first  == there \o formed
<1>3. there \in Openings /\ formed \in Openings
  BY DemandStages
<1>4. first \in Openings
  BY <1>3, MoreStages
<1>5. Stages = first \o CommandStages
  BY DEF Stages
<1> HIDE DEF first, there, formed
<1>6. first \o q \in Openings /\ Opening(first \o q)
  BY <1>2, <1>4, MoreStages DEF Opening, Openings
<1>7. Closing \in Seq(Stage)
  BY ClosingStages
<1>8. first \o (q \o Closing) = (first \o q) \o Closing
  BY <1>4, <1>7, SomeStages, ConcatAssociative DEF Openings
<1> QED BY <1>2, <1>5, <1>6, <1>8 DEF Leads

-----------------------------------------------------------------------------
(* What a running command has done so far, and what an exit code stands for. *)
Delivered ==
  cmd.op \notin {"inspect", "validate"} =>
    IF cmd.output = Missing THEN Last(stdout) = Result ELSE files[Place(cmd.output)] = Result

\* What a decode reads is what is in the file, or in the pipe.
Fetched ==
  \/ place # Nowhere /\ place \in DOMAIN files /\ content = files[place]
  \/ place = Nowhere /\ content = Joined(piped)
Fetching(q) ==
  \A i \in DOMAIN q : q[i].do = "decode" => IF i = 1 THEN Fetched ELSE q[i - 1].do = "load"

Untouched == stdout \in Seq(Remarks) /\ files = before /\ (Makes => stdout = <<>>)
Opens     == Untouched /\ \E q \in Seq(QuietStage) : Opening(q) /\ Fetching(q) /\ todo = q \o Closing
Delivers  == /\ Untouched /\ cmd.op \notin {"inspect", "validate"} /\ content = Result
             /\ Makes => ~IsError(content)
             /\ todo \in {<<[do |-> "size"], [do |-> "emit"]>>, <<[do |-> "emit"]>>}
Judges    == Untouched /\ cmd.op = "validate" /\ todo = <<[do |-> "verdict"]>>
Done      == todo = <<>> /\ Delivered
FailedRightly ==
  /\ stdout \in Seq(Remarks)
  /\ \A f \in DOMAIN files :
       \/ f \in DOMAIN before /\ files[f] = before[f]
       \/ exit = ExitCode.io /\ cmd.output # Missing /\ f = Place(cmd.output)

Truth ==
  /\ exit = Running => Opens \/ Delivers \/ Judges \/ Done
  /\ exit = 0 => Done
  /\ exit \notin {Running, 0} => FailedRightly

Fails == \E kind \in DOMAIN ExitCode : Fail(kind)

LEMMA ExitCodes ==
  /\ \A kind \in DOMAIN ExitCode : ExitCode[kind] \notin {Running, 0}
  /\ {"usage", "parse", "schema", "ambiguity", "plan_validation", "transform",
      "target_validation", "security", "resource_limit", "io"} \subseteq DOMAIN ExitCode
BY DEF ExitCode, Running

LEMMA FailsUntouched ==
  ASSUME Fails, files = before, stdout' \in Seq(Remarks), UNCHANGED <<files, before>>
  PROVE  Truth'
<1>1. exit' \notin {Running, 0}
  BY ExitCodes DEF Fails, Fail
<1>2. Running' = Running
  BY DEF Running
<1>3. Remarks' = Remarks
  BY DEF Remarks, Document
<1>4. FailedRightly'
  BY <1>3 DEF FailedRightly
<1> QED BY <1>1, <1>2, <1>4 DEF Truth

LEMMA CommandStays ==
  ASSUME UNCHANGED <<session, turn>>
  PROVE  /\ cmd' = cmd /\ QuietStage' = QuietStage /\ Closing' = Closing /\ Makes' = Makes
         /\ \A q : Opening(q)' <=> Opening(q)
<1>1. cmd' = cmd
  BY DEF cmd
<1>2. QuietStage' = QuietStage
  BY <1>1 DEF QuietStage
<1>3. Closing' = Closing
  BY <1>1 DEF Closing, Do, Delivery
<1>4. Makes' = Makes
  BY <1>1 DEF Makes
<1> HIDE DEF QuietStage, Closing, Makes
<1>5. \A q : Opening(q)' <=> Opening(q)
  BY <1>1, <1>2, <1>4 DEF Opening, Blocked
<1> QED BY <1>1, <1>2, <1>3, <1>4, <1>5

\* What goes wrong in reading bytes and in writing records.
LEMMA DecodingKinds ==
  ASSUME NEW c, NEW format, NEW infer, NEW d \in Decodings(c, format, infer), IsError(d)
  PROVE  d.kind = "parse"
<1>1. \A r : ~IsError(Rows(r))
  BY DEF IsError, Rows
<1>2. \A code : Error("parse", code).kind = "parse"
  BY DEF Error
<1>3. \A r : d \in {Rows(r)} => FALSE
  BY <1>1
<1>4. \A r, code : d \in {Rows(r), Error("parse", code)} => d = Error("parse", code)
  BY <1>1
<1>5. \A code : d \in {Error("parse", code)} => d = Error("parse", code)
  OBVIOUS
<1> HIDE DEF Rows, Error, IsError
<1> QED BY <1>2, <1>3, <1>4, <1>5 DEF Decodings

LEMMA EncodingKinds ==
  ASSUME NEW rs, NEW form \in FormatIds, IsError(EncodeRecords(rs, form))
  PROVE  EncodeRecords(rs, form).kind = "transform"
<1>1. \A code : Error("transform", code).kind = "transform"
  BY DEF Error
<1>2. CASE form \in {"json", "yaml"}
  BY <1>2 DEF EncodeRecords, IsError, Delimited, Columnar
<1>3. CASE form = "jsonl"
  BY <1>3 DEF EncodeRecords, IsError, Delimited, Columnar
<1>4. CASE form \in Delimited
  <2>1. EncodeRecords(rs, form) = EncodeDelimited(rs, form)
    BY <1>4 DEF EncodeRecords, Delimited, Columnar
  <2>2. \A f, h, r : ~IsError([form |-> f, header |-> h, rows |-> r])
    BY DEF IsError
  <2> HIDE DEF IsError, Error
  <2> QED BY <1>1, <2>1, <2>2 DEF EncodeDelimited
<1>5. CASE form \in Columnar
  <2>1. EncodeRecords(rs, form) = EncodeColumnar(AllSerialized(rs), form)
    BY <1>5 DEF EncodeRecords, Delimited, Columnar
  <2>2. \A f, v : ~IsError([form |-> f, values |-> v])
    BY DEF IsError
  <2> HIDE DEF IsError, Error
  <2> QED BY <1>1, <2>1, <2>2 DEF EncodeColumnar
<1> QED BY <1>2, <1>3, <1>4, <1>5 DEF FormatIds

-----------------------------------------------------------------------------
(* The steps of a command, by the stage it is at.                          *)
LEMMA AtOnly ==
  ASSUME exit = Running, todo # <<>>
  PROVE  /\ \A stage : At(stage) <=> stage = Head(todo).do
         /\ ~EndCommand /\ ~NextCommand
BY DEF At, EndCommand, NextCommand, Running

\* A check, or a stage that another module does, passes or fails, and touches nothing.
LEMMA CheckStep ==
  ASSUME NEW stage, NEW ok \in BOOLEAN, NEW kind \in DOMAIN ExitCode, Check(stage, ok, kind)
  PROVE  /\ UNCHANGED <<session, turn, before, files, stdout, content, records>>
         /\ Head(todo).do = stage
         /\ Fails \/ (Pass /\ ok = TRUE)
BY DEF Check, Only, Fails, PassIf, At

LEMMA ReadDocumentStep ==
  ASSUME ReadDocument, Head(todo).is \in {"schema", "plan"}
  PROVE  UNCHANGED <<session, turn, before, files, stdout>> /\ (Fails \/ Pass)
<1> DEFINE path == Head(todo).path
           parsed(p) ==
             CASE IsError(p) -> Fail("parse")
               [] ~IsError(p) /\ Head(todo).is = "schema" ->
                    PassIf(p.rows # <<Document("badSchema").value>>, "schema")
               [] ~IsError(p) /\ Head(todo).is = "plan" ->
                    CASE p.rows = <<Document("plan").value>>    -> Pass
                      [] p.rows = <<Document("badPlan").value>> -> Fail("plan_validation")
                      [] OTHER                                  -> Fail("parse")
<1>1. UNCHANGED <<session, turn, before, files, stdout>>
  BY DEF ReadDocument, Only
<1>2. {"io", "parse", "schema", "plan_validation"} \subseteq DOMAIN ExitCode
  BY ExitCodes
<1>3. Fail("io") \/ \E p \in Parsed(path) : parsed(p)
  BY DEF ReadDocument
<1>4. ASSUME NEW p, parsed(p) PROVE Fails \/ Pass
  <2>1. CASE IsError(p)
    BY <1>2, <1>4, <2>1 DEF Fails
  <2>2. CASE ~IsError(p) /\ Head(todo).is = "schema"
    BY <1>2, <1>4, <2>2 DEF Fails, PassIf
  <2>3. CASE ~IsError(p) /\ Head(todo).is = "plan"
    <3>1. Pass \/ Fail("plan_validation") \/ Fail("parse")
      BY <1>4, <2>3
    <3> QED BY <1>2, <3>1 DEF Fails
  <2> QED BY <2>1, <2>2, <2>3
<1> HIDE DEF parsed
<1>5. (\E p \in Parsed(path) : parsed(p)) => Fails \/ Pass
  BY <1>4
<1>6. Fail("io") => Fails
  BY <1>2 DEF Fails
<1> QED BY <1>1, <1>3, <1>5, <1>6

LEMMA LoadStepQuiet ==
  ASSUME LoadStdin \/ LoadFile
  PROVE  UNCHANGED <<session, turn, before, files, stdout>> /\ (Fails \/ Pass)
<1>1. {"io", "resource_limit", "security"} \subseteq DOMAIN ExitCode
  BY ExitCodes
<1>2. UNCHANGED <<session, turn, before, files, stdout>>
  BY DEF LoadStdin, LoadFile, Only
<1>3. Pass \/ Fail("io") \/ Fail("resource_limit") \/ Fail("security")
  BY DEF LoadStdin, LoadFile, PassIf
<1> QED BY <1>1, <1>2, <1>3 DEF Fails

LEMMA DecodeStep ==
  ASSUME DecodeSource
  PROVE  UNCHANGED <<session, turn, before, files, stdout>> /\ (Fails \/ Pass)
<1>1. "parse" \in DOMAIN ExitCode
  BY ExitCodes
<1>2. UNCHANGED <<session, turn, before, files, stdout>>
  BY DEF DecodeSource, Only
<1>3. PICK d \in Decodings(content, FormatRead, InferUsed) : IF IsError(d) THEN Fail(d.kind) ELSE Pass
  BY DEF DecodeSource
<1>4. IsError(d) => d.kind = "parse"
  BY DecodingKinds
<1> QED BY <1>1, <1>2, <1>3, <1>4 DEF Fails

LEMMA OtherStages ==
  ASSUME StageFails \/ StagePasses \/ PlanIsAmbiguous \/ PlanIsReady \/ Transformed,
         stdout \in Seq(Remarks)
  PROVE  /\ UNCHANGED <<session, turn, before, files>> /\ stdout' \in Seq(Remarks)
         /\ Makes => stdout' = stdout
         /\ Fails \/ Pass
         /\ Head(todo).do \in {"infer", "check", "planning", "execute", "query"}
<1>1. /\ "ambiguity" \in DOMAIN ExitCode
      /\ \A stage \in DOMAIN Failures : Failures[stage] \subseteq DOMAIN ExitCode
  BY DEF Failures, ExitCode
<1>2. Document("unresolved") \in Remarks /\ Document("explanation") \in Remarks
  BY DEF Remarks
<1>3. Append(stdout, Document("unresolved")) \in Seq(Remarks)
      /\ Append(stdout, Document("explanation")) \in Seq(Remarks)
  BY <1>2, AppendProperties
<1>4. CASE StageFails
  BY <1>1, <1>4 DEF StageFails, Fails, Only, Failures
<1>5. CASE StagePasses
  BY <1>5 DEF StagePasses, Only, At
<1>6. CASE PlanIsAmbiguous
  BY <1>1, <1>3, <1>6 DEF PlanIsAmbiguous, Fails, Only, At, Makes
<1>7. CASE PlanIsReady
  BY <1>3, <1>7 DEF PlanIsReady, Only, At, Makes
<1>8. CASE Transformed
  BY <1>8 DEF Transformed, Only, At
<1> QED BY <1>4, <1>5, <1>6, <1>7, <1>8

\* A stage before the closing prints remarks at most, and no demand is passed unmet.
LEMMA QuietStep ==
  ASSUME exit = Running, todo # <<>>, Head(todo) \in QuietStage, stdout \in Seq(Remarks), Next
  PROVE  /\ UNCHANGED <<session, turn, before, files>> /\ stdout' \in Seq(Remarks)
         /\ Makes => stdout' = stdout
         /\ Head(todo).do = "load" => LoadStdin \/ LoadFile
         /\ Fails \/ (Pass /\ (Head(todo).do = "demand" => Head(todo).ok # FALSE))
<1> DEFINE stage == Head(todo).do
<1>1. \A s : At(s) <=> s = stage
  BY AtOnly
<1>2. ~EndCommand /\ ~NextCommand
  BY AtOnly
<1>3. stage \in QuietNames \union {"demand", "document"}
  BY DEF QuietStage
<1>4. ~At("encode") /\ ~At("size") /\ ~At("answer") /\ ~At("report") /\ ~At("verdict") /\ ~At("emit")
  BY <1>1, <1>3 DEF QuietNames
<1>5. ~CheckOutputBytes /\ ~Verdict /\ ~Encode /\ ~Answer /\ ~Report /\ ~EmitToStdout /\ ~WriteDenied /\ ~WriteOutput
  BY <1>4 DEF CheckOutputBytes, Verdict, Check, Encode, Answer, Report, EmitToStdout, WriteDenied, WriteOutput
<1>6. CASE CheckDemand
  <2>1. stage = "demand"
    BY <1>1, <1>6 DEF CheckDemand, Check
  <2>2. Head(todo).ok \in BOOLEAN /\ Head(todo).kind \in DOMAIN ExitCode
    BY <2>1 DEF QuietStage, QuietNames
  <2> QED BY <1>6, <2>1, <2>2, CheckStep DEF CheckDemand
<1>7. CASE ReadDocument
  <2>1. stage = "document"
    BY <1>1, <1>7 DEF ReadDocument
  <2>2. Head(todo).is \in {"schema", "plan"}
    BY <2>1 DEF QuietStage, QuietNames
  <2> QED BY <1>7, <2>1, <2>2, ReadDocumentStep
<1>8. CASE LoadStdin \/ LoadFile
  <2>1. stage = "load"
    BY <1>1, <1>8 DEF LoadStdin, LoadFile
  <2> QED BY <1>8, <2>1, LoadStepQuiet
<1>9. CASE DecodeSource
  <2>1. stage = "decode"
    BY <1>1, <1>9 DEF DecodeSource
  <2> QED BY <1>9, <2>1, DecodeStep
<1>10. CASE CheckRowLimit \/ CheckNestingDepth
  <2> DEFINE few  == Len(records) <= config.maxRows
             flat == \A i \in DOMAIN records : NestingDepth(records[i]) <= config.maxDepth
             ok   == (stage = "rows" /\ few) \/ (stage # "rows" /\ flat)
             kind == "resource_limit"
  <2>1. kind \in DOMAIN ExitCode /\ ok \in BOOLEAN
    BY ExitCodes
  <2>2. stage \in {"rows", "depth"}
    BY <1>1, <1>10 DEF CheckRowLimit, CheckNestingDepth, Check
  <2>3. Check(stage, ok, kind)
    <3>1. CASE CheckRowLimit
      <4>1. stage = "rows"
        BY <1>1, <3>1 DEF CheckRowLimit, Check
      <4> QED BY <3>1, <4>1 DEF CheckRowLimit, Check, PassIf
    <3>2. CASE CheckNestingDepth
      <4>1. stage = "depth"
        BY <1>1, <3>2 DEF CheckNestingDepth, Check
      <4> QED BY <3>2, <4>1 DEF CheckNestingDepth, Check, PassIf
    <3> QED BY <1>10, <3>1, <3>2
  <2> HIDE DEF ok, kind
  <2>4. UNCHANGED <<session, turn, before, files, stdout, content, records>> /\ (Fails \/ (Pass /\ ok = TRUE))
    BY <2>1, <2>3, CheckStep
  <2> QED BY <2>2, <2>4
<1>11. CASE StageFails \/ StagePasses \/ PlanIsAmbiguous \/ PlanIsReady \/ Transformed
  BY <1>11, OtherStages
<1>12. stage = "load" => LoadStdin \/ LoadFile
  BY <1>1, LoadStep
<1> QED BY <1>2, <1>5, <1>6, <1>7, <1>8, <1>9, <1>10, <1>11, <1>12 DEF Next

\* At a closing stage nothing else can happen than what closes a command.
LEMMA ClosingStep ==
  ASSUME exit = Running, todo # <<>>, Next,
         Head(todo).do \in {"report", "verdict", "answer", "encode", "size", "emit"}
  PROVE  /\ Head(todo).do = "report" => Report
         /\ Head(todo).do = "verdict" => Verdict
         /\ Head(todo).do = "answer" => Answer
         /\ Head(todo).do = "encode" => Encode
         /\ Head(todo).do = "size" => CheckOutputBytes
         /\ Head(todo).do = "emit" => EmitToStdout \/ WriteDenied \/ WriteOutput
<1> DEFINE stage == Head(todo).do
<1>1. \A s : At(s) <=> s = stage
  BY AtOnly
<1>2. ~EndCommand /\ ~NextCommand
  BY AtOnly
<1>3. stage \in {"report", "verdict", "answer", "encode", "size", "emit"}
  OBVIOUS
<1> HIDE DEF stage
<1>4. /\ ~CheckDemand /\ ~ReadDocument /\ ~LoadStdin /\ ~LoadFile /\ ~DecodeSource
      /\ ~CheckRowLimit /\ ~CheckNestingDepth
  BY <1>1, <1>3 DEF CheckDemand, ReadDocument, LoadStdin, LoadFile, DecodeSource, CheckRowLimit,
     CheckNestingDepth, Check
<1>5. ~StageFails /\ ~StagePasses /\ ~PlanIsAmbiguous /\ ~PlanIsReady /\ ~Transformed
  BY <1>1, <1>3 DEF StageFails, StagePasses, PlanIsAmbiguous, PlanIsReady, Transformed, Failures, stage
<1>6. \/ Encode \/ CheckOutputBytes \/ Answer \/ Report \/ Verdict
      \/ EmitToStdout \/ WriteDenied \/ WriteOutput
  BY <1>2, <1>4, <1>5 DEF Next
<1>7. /\ Encode => stage = "encode"
      /\ CheckOutputBytes => stage = "size"
      /\ Answer => stage = "answer"
      /\ Report => stage = "report"
      /\ Verdict => stage = "verdict"
      /\ EmitToStdout \/ WriteDenied \/ WriteOutput => stage = "emit"
  BY <1>1 DEF Encode, CheckOutputBytes, Check, Answer, Report, Verdict, EmitToStdout, WriteDenied, WriteOutput
<1> QED BY <1>6, <1>7 DEF stage

LEMMA RunningTruth ==
  ASSUME exit' = Running, Opens' \/ Delivers' \/ Judges' \/ Done'
  PROVE  Truth'
<1>1. Running' = Running /\ Running # 0
  BY DEF Running
<1> QED BY <1>1 DEF Truth

LEMMA RemarksStay ==
  /\ Remarks' = Remarks /\ Document("report") \in Remarks
  /\ \A kind : Document(kind)' = Document(kind)
BY DEF Remarks, Document

LEMMA HeadsTails ==
  /\ \A a : Head(<<a>>) = a /\ Tail(<<a>>) = <<>> /\ <<a>> # <<>>
  /\ \A a, b : Head(<<a, b>>) = a /\ Tail(<<a, b>>) = <<b>> /\ <<a, b>> # <<>>
  /\ \A a, b, c : Head(<<a, b, c>>) = a /\ Tail(<<a, b, c>>) = <<b, c>> /\ <<a, b, c>> # <<>>
OBVIOUS

LEMMA UntouchedStays ==
  ASSUME Untouched, UNCHANGED <<session, turn, before, files>>, stdout' \in Seq(Remarks),
         Makes => stdout' = stdout
  PROVE  Untouched'
BY RemarksStay, CommandStays DEF Untouched

LEMMA LoadFetches ==
  ASSUME Nowhere \notin DOMAIN files, LoadStdin \/ LoadFile, Pass
  PROVE  Fetched'
<1>1. exit' = Running /\ \A kind \in DOMAIN ExitCode : ExitCode[kind] # Running
  BY ExitCodes DEF LoadStdin, LoadFile, At, Pass
<1>2. ~Fail("security") /\ ~Fail("io")
  BY <1>1, ExitCodes DEF Fail
<1>3. CASE LoadStdin
  <2>1. content' = Joined(piped) /\ place' = Nowhere /\ UNCHANGED piped
    BY <1>3 DEF LoadStdin, Only
  <2> QED BY <2>1 DEF Fetched, Joined, Nowhere, Nothing
<1>4. CASE LoadFile
  <2>1. /\ UNCHANGED files /\ place' \in DOMAIN files /\ content' = files[place']
    BY <1>2, <1>4 DEF LoadFile, IsFile, Only
  <2> QED BY <2>1 DEF Fetched, Nowhere
<1> QED BY <1>3, <1>4

\* The next stage of an opening is quiet, and what is left is an opening if it passes.
LEMMA OpeningStep ==
  ASSUME Untouched, exit = Running, NEW q \in Seq(QuietStage), q # <<>>, Opening(q),
         Fetching(q), todo = q \o Closing, Closing \in Seq(Stage), Next, Nowhere \notin DOMAIN files
  PROVE  Truth'
<1>1. todo # <<>> /\ Head(todo) = q[1] /\ Tail(todo) = Tail(q) \o Closing /\ q[1] \in QuietStage
  <2>1. q \in Seq(Stage) /\ Len(q) \in Nat /\ Len(q) > 0
    BY SomeStages, EmptySeq, LenProperties
  <2>2. Tail(q) \in Seq(Stage) /\ Len(Tail(q)) = Len(q) - 1 /\ \A i \in 1 .. Len(Tail(q)) : Tail(q)[i] = q[i + 1]
    BY <2>1, HeadTailProperties
  <2>3. q[1] \in QuietStage
    BY <2>1, ElementOfSeq
  <2> DEFINE rest == Tail(q) \o Closing
  <2>4. todo \in Seq(Stage) /\ Len(todo) = Len(q) + Len(Closing) /\ Len(Closing) \in Nat
        /\ \A i \in 1 .. Len(q) + Len(Closing) : todo[i] = IF i <= Len(q) THEN q[i] ELSE Closing[i - Len(q)]
    BY <2>1, ConcatProperties, LenProperties
  <2>5. rest \in Seq(Stage) /\ Len(rest) = Len(q) - 1 + Len(Closing)
        /\ \A i \in 1 .. Len(q) - 1 + Len(Closing) :
             rest[i] = IF i <= Len(q) - 1 THEN Tail(q)[i] ELSE Closing[i - (Len(q) - 1)]
    BY <2>2, ConcatProperties
  <2> HIDE DEF rest, Closing, Stage
  <2>6. todo # <<>> /\ Head(todo) = q[1]
    <3>1. Len(todo) > 0 /\ 1 \in 1 .. Len(q) + Len(Closing) /\ 1 <= Len(q)
      BY <2>1, <2>4
    <3>2. todo # <<>>
      BY <3>1, EmptySeq
    <3>3. todo[1] = q[1]
      BY <2>4, <3>1
    <3> QED BY <3>2, <3>3, <2>4
  <2>7. Tail(todo) \in Seq(Stage) /\ Len(Tail(todo)) = Len(todo) - 1
        /\ \A i \in 1 .. Len(Tail(todo)) : Tail(todo)[i] = todo[i + 1]
    BY <2>4, <2>6, HeadTailProperties
  <2>8. Len(Tail(todo)) = Len(rest)
    BY <2>1, <2>4, <2>5, <2>7
  <2>9. ASSUME NEW i \in 1 .. Len(Tail(todo)) PROVE Tail(todo)[i] = rest[i]
    <3>1. i + 1 \in 1 .. Len(q) + Len(Closing) /\ i \in 1 .. Len(q) - 1 + Len(Closing)
      BY <2>1, <2>4, <2>7
    <3>2. Tail(todo)[i] = IF i + 1 <= Len(q) THEN q[i + 1] ELSE Closing[i + 1 - Len(q)]
      BY <2>4, <2>7, <3>1
    <3>3. rest[i] = IF i <= Len(q) - 1 THEN Tail(q)[i] ELSE Closing[i - (Len(q) - 1)]
      BY <2>5, <3>1
    <3>4. CASE i <= Len(q) - 1
      <4>1. i \in 1 .. Len(Tail(q)) /\ i + 1 <= Len(q)
        BY <2>1, <2>2, <3>1, <3>4
      <4> QED BY <2>2, <3>2, <3>3, <3>4, <4>1
    <3>5. CASE ~(i <= Len(q) - 1)
      <4>1. ~(i + 1 <= Len(q)) /\ i + 1 - Len(q) = i - (Len(q) - 1)
        BY <2>1, <3>1, <3>5
      <4> QED BY <3>2, <3>3, <3>5, <4>1
    <3> QED BY <3>4, <3>5
  <2>10. Tail(todo) = rest
    BY <2>5, <2>7, <2>8, <2>9, SeqEqual
  <2> QED BY <2>3, <2>6, <2>10 DEF rest
<1>2. /\ UNCHANGED <<session, turn, before, files>> /\ stdout' \in Seq(Remarks)
      /\ Makes => stdout' = stdout
      /\ q[1].do = "load" => LoadStdin \/ LoadFile
      /\ Fails \/ (Pass /\ (q[1].do = "demand" => q[1].ok # FALSE))
  BY <1>1, QuietStep DEF Untouched
<1>3. CASE Fails
  BY <1>2, <1>3, FailsUntouched DEF Untouched
<1>4. CASE Pass /\ (q[1].do = "demand" => q[1].ok # FALSE)
  <2>1. Tail(q) \in Seq(QuietStage) /\ Len(Tail(q)) = Len(q) - 1 /\ Len(q) \in Nat /\ DOMAIN q = 1 .. Len(q)
        /\ \A i \in 1 .. Len(Tail(q)) : Tail(q)[i] = q[i + 1]
    BY HeadTailProperties, LenProperties
  <2>2. ASSUME Blocked(q) PROVE Blocked(Tail(q))
    <3>1. PICK i \in 1 .. Len(q) : q[i].do = "demand" /\ q[i].ok = FALSE
      BY <2>1, <2>2 DEF Blocked
    <3>2. i # 1
      BY <1>4, <3>1
    <3> DEFINE k == i - 1
    <3>3. k \in 1 .. Len(Tail(q)) /\ k + 1 = i
      BY <2>1, <3>1, <3>2
    <3> HIDE DEF k
    <3>4. k \in DOMAIN Tail(q) /\ Tail(q)[k] = q[i]
      BY <2>1, <3>3, LenProperties
    <3> QED BY <3>1, <3>4 DEF Blocked
  <2>3. Opening(Tail(q))
    BY <2>1, <2>2 DEF Opening
  <2>4. Opening(Tail(q))' /\ QuietStage' = QuietStage /\ Closing' = Closing
    BY <1>2, <2>3, CommandStays
  <2>5. todo' = Tail(q) \o Closing'
    BY <1>1, <1>4, <2>4 DEF Pass
  <2>6. Fetching(Tail(q))'
    <3> SUFFICES ASSUME NEW i \in DOMAIN Tail(q), Tail(q)[i].do = "decode"
                 PROVE  IF i = 1 THEN Fetched' ELSE Tail(q)[i - 1].do = "load"
      BY DEF Fetching
    <3>1. i \in 1 .. Len(Tail(q)) /\ i + 1 \in DOMAIN q /\ i + 1 # 1 /\ i + 1 - 1 = i
      BY <2>1, LenProperties
    <3>2. q[i + 1].do = "decode"
      BY <2>1, <3>1
    <3>3. q[i].do = "load"
      <4> DEFINE k == i + 1
      <4>1. k \in DOMAIN q /\ k # 1 /\ k - 1 = i /\ q[k].do = "decode"
        BY <3>1, <3>2
      <4> HIDE DEF k
      <4>2. q[k - 1].do = "load"
        BY <4>1 DEF Fetching
      <4> QED BY <4>1, <4>2
    <3>4. CASE i = 1
      <4>1. LoadStdin \/ LoadFile
        BY <1>2, <3>3, <3>4
      <4> QED BY <1>4, <3>4, <4>1, LoadFetches
    <3>5. CASE i # 1
      <4>1. i - 1 \in 1 .. Len(Tail(q)) /\ i - 1 + 1 = i
        BY <2>1, <3>1, <3>5
      <4> QED BY <2>1, <3>3, <3>5, <4>1
    <3> QED BY <3>4, <3>5
  <2>7. Untouched'
    BY <1>2, UntouchedStays
  <2>8. exit' = Running
    BY <1>4 DEF Pass
  <2> QED BY <2>1, <2>4, <2>5, <2>6, <2>7, <2>8, RunningTruth DEF Opens
<1> QED BY <1>2, <1>3, <1>4

\* The first stage of a closing.
LEMMA ReportTruth ==
  ASSUME Untouched, exit = Running, Report, cmd.op \in {"inspect", "validate"},
         Tail(todo) \in {<<>>, <<[do |-> "verdict"]>>},
         Tail(todo) # <<>> => cmd.op = "validate"
  PROVE  Truth'
<1>1. /\ UNCHANGED <<session, turn, before, files, exit>>
      /\ todo' = Tail(todo) /\ stdout' = Append(stdout, Document("report"))
  BY DEF Report, Only, Pass
<1>2. stdout' \in Seq(Remarks)
  BY <1>1, RemarksStay, AppendProperties DEF Untouched
<1>3. Untouched' /\ cmd' = cmd
  BY <1>1, <1>2, UntouchedStays, CommandStays DEF Makes
<1>4. CASE Tail(todo) = <<>>
  <2>1. Done'
    BY <1>1, <1>3, <1>4 DEF Done, Delivered
  <2> QED BY <1>1, <2>1, RunningTruth
<1>5. CASE Tail(todo) = <<[do |-> "verdict"]>>
  <2>1. Judges'
    BY <1>1, <1>3, <1>5, HeadsTails DEF Judges
  <2> QED BY <1>1, <2>1, RunningTruth
<1> QED BY <1>4, <1>5

LEMMA AnswerTruth ==
  ASSUME Untouched, exit = Running, Answer, cmd.op \in {"schema", "plan"},
         Tail(todo) = <<[do |-> "emit"]>>
  PROVE  Truth'
<1>1. /\ UNCHANGED <<session, turn, before, files, stdout, exit>>
      /\ todo' = <<[do |-> "emit"]>> /\ content' = Document(cmd.op)
  BY DEF Answer, Only, Pass
<1>2. Untouched' /\ cmd' = cmd
  BY <1>1, UntouchedStays, CommandStays DEF Untouched
<1>3. Result' = Document(cmd.op)
  BY <1>2 DEF Result, Document
<1>4. Delivers'
  BY <1>1, <1>2, <1>3 DEF Delivers, Makes
<1> QED BY <1>1, <1>4, RunningTruth

LEMMA EncodeTruth ==
  ASSUME Untouched, exit = Running, Encode, Makes, cmd.to \in FormatIds,
         Tail(todo) \in {<<[do |-> "size"], [do |-> "emit"]>>, <<[do |-> "emit"]>>}
  PROVE  Truth'
<1> DEFINE encoded == EncodeRecords(records, cmd.to)
<1>1. /\ UNCHANGED <<session, turn, before, files, stdout, records>>
      /\ IF IsError(encoded) THEN Fail(encoded.kind) ELSE Pass /\ content' = encoded
  BY DEF Encode, Only
<1>2. IsError(encoded) => encoded.kind = "transform"
  BY EncodingKinds
<1>3. Result = encoded /\ cmd.op \notin {"inspect", "validate"}
  BY DEF Result, Makes
<1>4. cmd' = cmd /\ Result' = Result
  BY <1>1, CommandStays DEF Result, Document
<1> HIDE DEF encoded
<1>5. CASE IsError(encoded)
  <2>1. Fails
    BY <1>1, <1>2, <1>5, ExitCodes DEF Fails
  <2> QED BY <1>1, <2>1, FailsUntouched DEF Untouched
<1>6. CASE ~IsError(encoded)
  <2>1. exit' = Running /\ todo' = Tail(todo) /\ content' = Result' /\ content' = encoded
    BY <1>1, <1>3, <1>4, <1>6 DEF Pass
  <2>2. Untouched'
    BY <1>1, UntouchedStays DEF Untouched
  <2>3. Delivers'
    BY <1>3, <1>4, <1>6, <2>1, <2>2 DEF Delivers, IsError
  <2> QED BY <2>1, <2>3, RunningTruth
<1> QED BY <1>5, <1>6

LEMMA ClosingTruth ==
  ASSUME Untouched, exit = Running, IsCommand(cmd), Opening(<<>>), todo = Closing, Next
  PROVE  Truth'
<1>1. Closings
  BY ClosingIs
<1>2. Makes => cmd.to \in FormatIds
  <2>1. ~Blocked(<<>>)
    BY DEF Blocked
  <2> QED BY <2>1 DEF Opening
<1>3. CASE cmd.op = "inspect"
  <2>1. todo = <<[do |-> "report"]>>
    BY <1>1, <1>3 DEF Closings
  <2>2. todo # <<>> /\ Head(todo).do = "report" /\ Tail(todo) = <<>>
    BY <2>1, HeadsTails
  <2>3. Report
    BY <2>2, ClosingStep
  <2> QED BY <1>3, <2>2, <2>3, ReportTruth
<1>4. CASE cmd.op = "validate"
  <2>1. todo \in {<<[do |-> "report"]>>, <<[do |-> "report"], [do |-> "verdict"]>>}
    BY <1>1, <1>4 DEF Closings
  <2>2. todo # <<>> /\ Head(todo).do = "report" /\ Tail(todo) \in {<<>>, <<[do |-> "verdict"]>>}
    <3>1. CASE todo = <<[do |-> "report"]>>
      BY <3>1, HeadsTails
    <3>2. CASE todo = <<[do |-> "report"], [do |-> "verdict"]>>
      BY <3>2, HeadsTails
    <3> QED BY <2>1, <3>1, <3>2
  <2>3. Report
    BY <2>2, ClosingStep
  <2> QED BY <1>4, <2>2, <2>3, ReportTruth
<1>5. CASE cmd.op \in {"schema", "plan"}
  <2>1. todo = <<[do |-> "answer"], [do |-> "emit"]>>
    BY <1>1, <1>5 DEF Closings
  <2>2. todo # <<>> /\ Head(todo).do = "answer" /\ Tail(todo) = <<[do |-> "emit"]>>
    BY <2>1, HeadsTails
  <2>3. Answer
    BY <2>2, ClosingStep
  <2> QED BY <1>5, <2>2, <2>3, AnswerTruth
<1>6. CASE cmd.op \in {"transform", "query", "convert"}
  <2>1. todo \in {<<[do |-> "encode"], [do |-> "size"], [do |-> "emit"]>>,
                  <<[do |-> "encode"], [do |-> "emit"]>>}
    BY <1>1, <1>6 DEF Closings
  <2>2. /\ todo # <<>> /\ Head(todo).do = "encode"
        /\ Tail(todo) \in {<<[do |-> "size"], [do |-> "emit"]>>, <<[do |-> "emit"]>>}
    <3>1. CASE todo = <<[do |-> "encode"], [do |-> "size"], [do |-> "emit"]>>
      BY <3>1, HeadsTails
    <3>2. CASE todo = <<[do |-> "encode"], [do |-> "emit"]>>
      BY <3>2, HeadsTails
    <3> QED BY <2>1, <3>1, <3>2
  <2>3. Encode /\ Makes
    BY <1>6, <2>2, ClosingStep DEF Makes
  <2> QED BY <1>2, <2>2, <2>3, EncodeTruth
<1> QED BY <1>3, <1>4, <1>5, <1>6 DEF IsCommand

LEMMA SizeTruth ==
  ASSUME Delivers, exit = Running, CheckOutputBytes, Tail(todo) = <<[do |-> "emit"]>>
  PROVE  Truth'
<1> DEFINE fits == SizeOf(content) <= config.maxOutput
           kind == "resource_limit"
<1>1. fits \in BOOLEAN /\ kind \in DOMAIN ExitCode
  BY ExitCodes
<1>2. Check("size", fits, kind)
  BY DEF CheckOutputBytes
<1> HIDE DEF fits, kind
<1>3. /\ UNCHANGED <<session, turn, before, files, stdout, content, records>>
      /\ Fails \/ Pass
  BY <1>1, <1>2, CheckStep
<1>4. cmd' = cmd /\ Result' = Result
  BY <1>3, CommandStays DEF Result, Document
<1>5. CASE Fails
  BY <1>3, <1>5, FailsUntouched DEF Delivers, Untouched
<1>6. CASE Pass
  <2>1. exit' = Running /\ todo' = <<[do |-> "emit"]>>
    BY <1>6 DEF Delivers, Pass
  <2>2. Untouched'
    BY <1>3, UntouchedStays DEF Delivers, Untouched
  <2>3. Makes' = Makes
    BY <1>3, CommandStays
  <2>4. Delivers'
    BY <1>3, <1>4, <2>1, <2>2, <2>3 DEF Delivers, IsError
  <2> QED BY <2>1, <2>4, RunningTruth
<1> QED BY <1>3, <1>5, <1>6

LEMMA VerdictTruth ==
  ASSUME Judges, exit = Running, Verdict
  PROVE  Truth'
<1>1. PICK valid \in BOOLEAN : Check("verdict", valid, "target_validation")
  BY DEF Verdict
<1> DEFINE kind == "target_validation"
<1>2. kind \in DOMAIN ExitCode /\ Check("verdict", valid, kind)
  BY <1>1, ExitCodes
<1> HIDE DEF kind
<1>3. UNCHANGED <<session, turn, before, files, stdout, content, records>> /\ (Fails \/ Pass)
  BY <1>2, CheckStep
<1>4. cmd' = cmd
  BY <1>3, CommandStays
<1>5. CASE Fails
  BY <1>3, <1>5, FailsUntouched DEF Judges, Untouched
<1>6. CASE Pass
  <2>1. todo' = <<>> /\ exit' = Running
    BY <1>6, HeadsTails DEF Judges, Pass
  <2>2. Done'
    BY <1>4, <2>1 DEF Done, Delivered, Judges
  <2> QED BY <2>1, <2>2, RunningTruth
<1> QED BY <1>3, <1>5, <1>6

\* What is emitted is the result; a write the system refuses has touched its own file.
LEMMA PrintTruth ==
  ASSUME Delivers, exit = Running, EmitToStdout, Tail(todo) = <<>>
  PROVE  Truth'
<1>1. /\ UNCHANGED <<session, turn, before, files, records, exit>>
      /\ todo' = <<>> /\ stdout' = Append(stdout, content) /\ cmd.output = Missing
  BY DEF EmitToStdout, Only, Pass
<1>2. cmd' = cmd /\ Result' = Result
  BY <1>1, CommandStays DEF Result, Document
<1>3. Last(stdout') = content
  <2> DEFINE S == Remarks \union {content}
             t == Append(stdout, content)
  <2>1. stdout \in Seq(S) /\ content \in S
    BY SeqMonotonic DEF Delivers, Untouched
  <2> HIDE DEF S
  <2>2. t \in Seq(S) /\ Len(t) = Len(stdout) + 1 /\ t[Len(stdout) + 1] = content
    BY <2>1, AppendProperties
  <2> QED BY <1>1, <2>2 DEF Last
<1>4. Done'
  BY <1>1, <1>2, <1>3 DEF Done, Delivered, Delivers
<1> QED BY <1>1, <1>4, RunningTruth

LEMMA WriteTruth ==
  ASSUME Delivers, exit = Running, WriteOutput, Tail(todo) = <<>>
  PROVE  Truth'
<1> DEFINE target == Place(cmd.output)
<1>1. /\ UNCHANGED <<session, turn, before, records, stdout>> /\ cmd.output # Missing
      /\ \/ Pass /\ files' = FilesWith(target, content)
         \/ Fail("io") /\ files' = FilesWith(target, Nothing)
         \/ Fail("io") /\ UNCHANGED files
  BY DEF WriteOutput, Only
<1>2. cmd' = cmd /\ Result' = Result
  BY <1>1, CommandStays DEF Result, Document
<1>3. CASE Pass /\ files' = FilesWith(target, content)
  <2>1. files'[target] = content
    BY <1>3 DEF FilesWith
  <2>2. Place(cmd.output)' = target
    BY <1>2 DEF Place
  <2>3. Done'
    BY <1>1, <1>2, <1>3, <2>1, <2>2 DEF Done, Delivered, Delivers, Pass
  <2>4. exit' = Running
    BY <1>3 DEF Pass
  <2> QED BY <2>3, <2>4, RunningTruth
<1>4. CASE Fail("io") /\ (files' = FilesWith(target, Nothing) \/ UNCHANGED files)
  <2>1. exit' = ExitCode.io /\ exit' \notin {Running, 0} /\ Running' = Running
    BY <1>4, ExitCodes DEF Fail, Running
  <2>2. ASSUME NEW f \in DOMAIN files', f # target
        PROVE  f \in DOMAIN files /\ files'[f] = files[f]
    BY <1>4, <2>2 DEF FilesWith
  <2>3. ExitCode' = ExitCode /\ Place(cmd.output)' = target /\ cmd'.output # Missing
    BY <1>1, <1>2 DEF ExitCode, Place
  <2>4. files = before /\ before' = before
    BY <1>1 DEF Delivers, Untouched
  <2> HIDE DEF target
  <2>5. stdout' \in Seq(Remarks')
    BY <1>1, RemarksStay DEF Delivers, Untouched
  <2>6. \A f \in DOMAIN files' :
          \/ f \in DOMAIN before' /\ files'[f] = before'[f]
          \/ exit' = ExitCode'.io /\ cmd'.output # Missing /\ f = Place(cmd.output)'
    BY <2>1, <2>2, <2>3, <2>4
  <2>7. FailedRightly'
    BY <2>5, <2>6 DEF FailedRightly
  <2> QED BY <2>1, <2>7 DEF Truth
<1> QED BY <1>1, <1>3, <1>4

LEMMA DeliversTruth ==
  ASSUME Delivers, exit = Running, Next
  PROVE  Truth'
<1>1. CASE todo = <<[do |-> "size"], [do |-> "emit"]>>
  <2>1. todo # <<>> /\ Head(todo).do = "size" /\ Tail(todo) = <<[do |-> "emit"]>>
    BY <1>1, HeadsTails
  <2>2. CheckOutputBytes
    BY <2>1, ClosingStep
  <2> QED BY <2>1, <2>2, SizeTruth
<1>2. CASE todo = <<[do |-> "emit"]>>
  <2>1. todo # <<>> /\ Head(todo).do = "emit" /\ Tail(todo) = <<>>
    BY <1>2, HeadsTails
  <2>2. EmitToStdout \/ WriteDenied \/ WriteOutput
    BY <2>1, ClosingStep
  <2>3. CASE WriteDenied
    <3>1. Fails /\ UNCHANGED <<before, files, stdout>>
      BY <2>3, ExitCodes DEF WriteDenied, Only, Fails
    <3> QED BY <3>1, FailsUntouched DEF Delivers, Untouched
  <2> QED BY <2>1, <2>2, <2>3, PrintTruth, WriteTruth
<1> QED BY <1>1, <1>2 DEF Delivers

LEMMA JudgesTruth ==
  ASSUME Judges, exit = Running, Next
  PROVE  Truth'
<1>1. todo # <<>> /\ Head(todo).do = "verdict"
  BY HeadsTails DEF Judges
<1>2. Verdict
  BY <1>1, ClosingStep
<1> QED BY <1>2, VerdictTruth

LEMMA OpensTruth ==
  ASSUME Opens, exit = Running, IsCommand(cmd), Next, Nowhere \notin DOMAIN files
  PROVE  Truth'
<1>1. PICK q \in Seq(QuietStage) : Opening(q) /\ Fetching(q) /\ todo = q \o Closing
  BY DEF Opens
<1>2. Closing \in Seq(Stage)
  BY ClosingStages
<1>3. CASE q # <<>>
  BY <1>1, <1>2, <1>3, OpeningStep DEF Opens
<1>4. CASE q = <<>>
  <2>1. todo = Closing
    BY <1>1, <1>2, <1>4, ConcatEmptySeq
  <2> QED BY <1>1, <1>4, <2>1, ClosingTruth DEF Opens
<1> QED BY <1>3, <1>4

\* Without a stage left, or with an exit code, a command only ends or makes way.
LEMMA StillTruth ==
  ASSUME Done \/ exit # Running, Truth, Next, ~NextCommand
  PROVE  Truth'
<1>1. ~(exit = Running /\ todo # <<>>)
  BY DEF Done
<1>2. \A stage : ~At(stage)
  BY <1>1 DEF At
<1>3. /\ ~CheckDemand /\ ~ReadDocument /\ ~LoadStdin /\ ~LoadFile /\ ~DecodeSource
      /\ ~CheckRowLimit /\ ~CheckNestingDepth
  BY <1>2 DEF CheckDemand, ReadDocument, LoadStdin, LoadFile, DecodeSource, CheckRowLimit,
     CheckNestingDepth, Check
<1>4. ~StageFails
  BY <1>1 DEF StageFails
<1>5. ~StagePasses /\ ~PlanIsAmbiguous /\ ~PlanIsReady /\ ~Transformed
  BY <1>2 DEF StagePasses, PlanIsAmbiguous, PlanIsReady, Transformed
<1>6. ~Encode /\ ~CheckOutputBytes /\ ~Answer /\ ~Report /\ ~Verdict
  BY <1>2 DEF Encode, CheckOutputBytes, Answer, Report, Verdict, Check
<1>7. ~EmitToStdout /\ ~WriteDenied /\ ~WriteOutput
  BY <1>2 DEF EmitToStdout, WriteDenied, WriteOutput
<1>8. EndCommand
  BY <1>3, <1>4, <1>5, <1>6, <1>7 DEF Next
<1>9. exit = Running /\ exit' = 0 /\ UNCHANGED <<session, turn, todo, files, stdout, content, records>>
  BY <1>8 DEF EndCommand, Only
<1>10. Done
  BY <1>9
<1>11. cmd' = cmd /\ Result' = Result
  BY <1>9, CommandStays DEF Result, Document
<1>12. Done'
  BY <1>9, <1>10, <1>11 DEF Done, Delivered, Place
<1>13. Running' # 0
  BY DEF Running
<1> QED BY <1>9, <1>12, <1>13 DEF Truth

Formed == IsCommand(cmd)
LEMMA FormedLeads == Formed => Leads(Stages)
BY StagesLead DEF Formed

LEMMA TruthStep == Grounded /\ Grounded' /\ Truth /\ [Next]_vars => Truth'
<1>lead. Formed' => Leads(Stages)'
  BY FormedLeads, PTL
<1>shape. Grounded => Formed
  BY CommandShape DEF Grounded, Formed
<1>next. Grounded' => Formed'
  BY <1>shape, PTL
<1> SUFFICES ASSUME Grounded, Grounded', Truth, [Next]_vars PROVE Truth'
  OBVIOUS
<1>1. CASE UNCHANGED vars
  <2>1. UNCHANGED <<session, turn, todo, exit, files, content, place, piped, records, stdout, before>>
    BY <1>1 DEF vars
  <2>2. cmd' = cmd /\ QuietStage' = QuietStage /\ Closing' = Closing /\ \A q : Opening(q)' <=> Opening(q)
    BY <2>1, CommandStays
  <2>3. Result' = Result
    BY <2>1, <2>2 DEF Result, Document
  <2>fetched. Fetched => Fetched'
    BY <2>1 DEF Fetched, Joined, Nowhere, Nothing
  <2>fetching. \A q : Fetching(q) => Fetching(q)'
    BY <2>fetched DEF Fetching
  <2>untouched. (Untouched => Untouched') /\ Makes' = Makes
    BY <2>1, UntouchedStays, CommandStays DEF Untouched
  <2>4. Opens => Opens'
    BY <2>1, <2>2, <2>fetching, <2>untouched DEF Opens
  <2>5. (Delivers => Delivers') /\ (Judges => Judges')
    BY <2>1, <2>2, <2>3, <2>untouched DEF Delivers, Judges, IsError
  <2>6. Done => Done'
    BY <2>1, <2>2, <2>3 DEF Done, Delivered, Place
  <2>7. FailedRightly => FailedRightly'
    BY <2>1, <2>2, RemarksStay DEF FailedRightly, Place
  <2>8. Running' = Running
    BY DEF Running
  <2> QED BY <2>1, <2>4, <2>5, <2>6, <2>7, <2>8 DEF Truth
<1>2. CASE NextCommand
  <2>1. exit' = Running /\ stdout' = <<>> /\ files' = before' /\ todo' = Stages'
    BY <1>2 DEF NextCommand
  <2>2. \E q \in Openings' : Opening(q)' /\ todo' = q \o Closing'
    BY <1>lead, <1>next, <2>1 DEF Leads
  <2>3. Untouched'
    BY <2>1 DEF Untouched
  <2>4. \A q : Paired(q) => Fetching(q)'
    BY DEF Paired, Fetching
  <2>5. \A q \in Openings' : q \in Seq(QuietStage') /\ Paired(q)
    BY DEF Openings, Paired
  <2> QED BY <2>1, <2>2, <2>3, <2>4, <2>5, RunningTruth DEF Opens
<1>3. CASE Next /\ ~NextCommand /\ (Done \/ exit # Running)
  BY <1>3, StillTruth
<1>4. CASE Next /\ exit = Running /\ ~Done
  BY <1>4, <1>shape, OpensTruth, DeliversTruth, JudgesTruth DEF Truth, Formed, Grounded
<1> QED BY <1>1, <1>2, <1>3, <1>4

LEMMA InitTruth == Init => Truth
<1> SUFFICES ASSUME Init PROVE Truth
  OBVIOUS
<1>1. Grounded
  BY InitGrounded
<1>2. Leads(todo)
  BY <1>1, FormedLeads, CommandShape DEF Init, Grounded, Formed
<1>3. exit = Running /\ stdout = <<>> /\ files = before
  BY DEF Init
<1>pairs. \A q \in Openings : q \in Seq(QuietStage) /\ Fetching(q)
  BY DEF Openings, Paired, Fetching
<1>opens. \E q \in Seq(QuietStage) : Opening(q) /\ Fetching(q) /\ todo = q \o Closing
  BY <1>2, <1>pairs DEF Leads
<1>untouched. Untouched
  BY <1>3 DEF Untouched
<1>4. Opens /\ Running # 0
  BY <1>opens, <1>untouched DEF Opens, Running
<1> QED BY <1>1, <1>3, <1>4 DEF Truth

(***************************************************************************)
(* However a command ends, its exit code says what it has left behind: its *)
(* result where that was asked for, or nothing but remarks and the file    *)
(* whose writing the system refused (run_command, write_output).           *)
(***************************************************************************)
THEOREM ExitCodesTellTruth == Spec => []ExitTellsTheTruth
<1>1. Init => Grounded /\ Truth
  BY InitGrounded, InitTruth
<1>2. Truth => ExitTellsTheTruth
  <2> SUFFICES ASSUME Truth PROVE ExitTellsTheTruth
    OBVIOUS
  <2>1. stdout \in Seq(Remarks) => Range(stdout) \subseteq Remarks
    BY LenProperties DEF Range
  <2>2. exit = 0 => Delivered
    BY DEF Truth, Done
  <2>3. exit \notin {Running, 0} => FailedRightly
    BY DEF Truth
  <2> QED BY <2>1, <2>2, <2>3 DEF ExitTellsTheTruth, FailedRightly, Delivered
<1> QED BY <1>1, <1>2, GroundedStep, TruthStep, PTL DEF Spec

-----------------------------------------------------------------------------
(* What is decoded of what was encoded.                                    *)
Alike(rs, form, infer, d) ==
  /\ ~IsError(d)
  /\ Len(d.rows) = Len(KeptOf(rs, form))
  /\ infer \in {"none", "conservative"} =>
       \A i \in DOMAIN KeptOf(rs, form) :
         ReadAlike(KeptOf(rs, form)[i], d.rows[i], ColumnsKept(KeptOf(rs, form)[i], rs, form))

LEMMA ListLength ==
  ASSUME NEW s, IsList(s), NEW t, DOMAIN t = DOMAIN s, t = [i \in DOMAIN s |-> t[i]]
  PROVE  IsList(t) /\ Len(t) = Len(s)
<1>1. DOMAIN s = 1 .. Len(s) /\ Len(s) \in Nat
  BY ListShape
<1>2. t \in Seq({t[i] : i \in DOMAIN s})
  BY <1>1
<1>3. DOMAIN t = 1 .. Len(t) /\ Len(t) \in Nat
  BY <1>2
<1>4. IsList(t)
  BY <1>2, SeqIsList
<1>5. Len(t) = Len(s)
  BY <1>1, <1>3
<1> QED BY <1>4, <1>5

LEMMA SerializedText ==
  ASSUME NEW v
  PROVE  SameText(v, Serialized(v))
<1>1. CASE IsNested(v)
  BY <1>1 DEF SameText
<1>2. CASE ~IsNested(v) /\ v.type = "decimal"
  <2>1. Serialized(v) = [type |-> "text", text |-> TextOf[v.number]]
    BY <1>2 DEF Serialized, SerializedAtom, IsNested, Text
  <2>2. Serialized(v) # Null /\ v # Null
    BY <1>2, <2>1 DEF Null
  <2>3. CellText(v) = TextOf[v.number]
    BY <1>2, <2>2 DEF CellText
  <2>4. CellText(Serialized(v)) = TextOf[v.number]
    BY <2>1, <2>2 DEF CellText
  <2>5. ~IsNested(Serialized(v))
    BY <2>1 DEF IsNested
  <2> QED BY <1>2, <2>3, <2>4, <2>5 DEF SameText
<1>3. CASE ~IsNested(v) /\ v.type # "decimal"
  <2>1. Serialized(v) = v
    BY <1>3 DEF Serialized, SerializedAtom, IsNested
  <2> QED BY <1>3, <2>1 DEF SameText
<1> QED BY <1>1, <1>2, <1>3

LEMMA SerializedRecordText ==
  ASSUME NEW r, r.type = "object"
  PROVE  /\ ReadAlike(r, SerializedRecord(r), DOMAIN r.fields)
         /\ SerializedRecord(r).type = "object"
<1> DEFINE fields == [n \in DOMAIN r.fields |-> Serialized(r.fields[n])]
           w == SerializedRecord(r)
<1>1. w = [type |-> "object", fields |-> fields]
  BY DEF SerializedRecord, Object
<1>2. w.type = "object" /\ DOMAIN w.fields = DOMAIN r.fields
  BY <1>1
<1>3. ASSUME NEW n \in DOMAIN r.fields PROVE SameText(Value(r, n), Value(w, n))
  <2>1. Value(w, n) = Serialized(r.fields[n]) /\ Value(r, n) = r.fields[n]
    BY <1>1 DEF Value
  <2> QED BY <2>1, SerializedText
<1>4. ReadAlike(r, w, DOMAIN r.fields)
  <2> HIDE DEF w
  <2> QED BY <1>2, <1>3 DEF ReadAlike
<1> QED BY <1>2, <1>4

LEMMA SerializedTable ==
  ASSUME NEW rs, IsTable(rs)
  PROVE  LET all == AllSerialized(rs)
         IN  /\ IsList(rs) /\ DOMAIN rs = 1 .. Len(rs) /\ Len(rs) \in Nat
             /\ IsList(all) /\ Len(all) = Len(rs) /\ DOMAIN all = DOMAIN rs
             /\ \A i \in DOMAIN rs : /\ all[i] = SerializedRecord(rs[i]) /\ all[i].type = "object"
                                     /\ ReadAlike(rs[i], all[i], DOMAIN rs[i].fields)
<1>1. IsList(rs) /\ DOMAIN rs = 1 .. Len(rs) /\ Len(rs) \in Nat
  BY ListShape DEF IsTable
<1>2. IsList(AllSerialized(rs)) /\ Len(AllSerialized(rs)) = Len(rs)
  BY <1>1, ListLength DEF AllSerialized
<1>3. DOMAIN AllSerialized(rs) = DOMAIN rs
  BY DEF AllSerialized
<1>4. ASSUME NEW i \in DOMAIN rs
      PROVE  AllSerialized(rs)[i] = SerializedRecord(rs[i]) /\ rs[i].type = "object"
  BY DEF AllSerialized, IsTable
<1> QED BY <1>1, <1>2, <1>3, <1>4, SerializedRecordText

\* Rows that are the records as a text has them.
LEMMA TextRows ==
  ASSUME NEW rs, IsTable(rs), NEW form \in {"json", "yaml", "jsonl"}, NEW infer,
         NEW d, ~IsError(d), d.rows = AllSerialized(rs)
  PROVE  Alike(rs, form, infer, d)
<1>1. KeptOf(rs, form) = rs
  BY DEF KeptOf, Columnar
<1>2. \A i \in DOMAIN rs : ColumnsKept(rs[i], rs, form) = DOMAIN rs[i].fields
  BY DEF ColumnsKept, Delimited
<1> QED BY <1>1, <1>2, SerializedTable DEF Alike

LEMMA NoError == \A rows : ~IsError(Rows(rows)) /\ Rows(rows).rows = rows
BY DEF IsError, Rows

LEMMA DocumentAlike ==
  ASSUME NEW rs, IsTable(rs), NEW form \in {"json", "yaml"}, NEW infer,
         NEW d \in Decodings(EncodeRecords(rs, form), form, infer)
  PROVE  Alike(rs, form, infer, d)
<1> DEFINE all     == AllSerialized(rs)
           bytes == [form |-> form, value |-> [type |-> "array", items |-> all]]
<1>1. EncodeRecords(rs, form) = bytes
  BY DEF EncodeRecords, Array, Delimited, Columnar
<1> HIDE DEF all
<1>2. RecordsFromValue(bytes.value) = all /\ bytes.form = form
  BY DEF RecordsFromValue
<1> HIDE DEF bytes
<1>3. Decodings(bytes, form, infer) = {Rows(all)}
  BY <1>2 DEF Decodings, Delimited, Columnar
<1> QED BY <1>1, <1>3, NoError, TextRows DEF all

LEMMA LinesAlike ==
  ASSUME NEW rs, IsTable(rs), NEW infer, NEW format,
         \/ format = "jsonl"
         \/ format = "csv" /\ Len(rs) = 0
         \/ format = "json" /\ Len(rs) = 1,
         NEW d \in Decodings(EncodeRecords(rs, "jsonl"), format, infer)
  PROVE  Alike(rs, "jsonl", infer, d)
<1> DEFINE all     == AllSerialized(rs)
           bytes == [form |-> "jsonl", values |-> all]
<1>1. EncodeRecords(rs, "jsonl") = bytes
  BY DEF EncodeRecords, Delimited, Columnar
<1>2. /\ IsList(all) /\ Len(all) = Len(rs) /\ DOMAIN all = 1 .. Len(rs) /\ Len(rs) \in Nat
      /\ \A i \in DOMAIN all : all[i].type = "object"
  BY SerializedTable
<1> HIDE DEF all
<1>3. bytes.form = "jsonl" /\ bytes.values = all
  OBVIOUS
<1>4. \A i \in DOMAIN all : AsRecord(all[i]) = all[i]
  BY <1>2 DEF AsRecord
<1>5. all \in Seq(Range(all))
  BY <1>2 DEF IsList
<1> HIDE DEF bytes
<1>6. CASE format = "jsonl"
  <2>1. Decodings(bytes, format, infer) = {Rows([i \in DOMAIN all |-> AsRecord(all[i])])}
    BY <1>3, <1>6 DEF Decodings, Delimited, Columnar
  <2>2. [i \in DOMAIN all |-> AsRecord(all[i])] = all
    BY <1>4, <1>5
  <2> QED BY <1>1, <2>1, <2>2, NoError, TextRows DEF all
<1>7. CASE format = "csv" /\ Len(rs) = 0
  <2>1. all = <<>>
    BY <1>2, <1>5, <1>7
  <2>2. Decodings(bytes, format, infer) = {Rows(<<>>)}
    BY <1>3, <1>7, <2>1 DEF Decodings, Delimited, Columnar
  <2> QED BY <1>1, <2>1, <2>2, NoError, TextRows DEF all
<1>8. CASE format = "json" /\ Len(rs) = 1
  <2>1. Decodings(bytes, format, infer) = {Rows(RecordsFromValue(all[1]))}
    BY <1>2, <1>3, <1>8 DEF Decodings, Delimited, Columnar
  <2>2. RecordsFromValue(all[1]) = <<all[1]>>
    BY <1>2, <1>8 DEF RecordsFromValue
  <2>3. <<all[1]>> = all
    BY <1>2, <1>5, <1>8
  <2> QED BY <1>1, <2>1, <2>2, <2>3, NoError, TextRows DEF all
<1> QED BY <1>6, <1>7, <1>8

LEMMA ShownAs ==
  /\ \A t : ~IsNested(Text(t)) /\ CellText(Text(t)) = t
  /\ \A kind \in {"int", "float", "decimal"} : \A x :
       ~IsNested(Number(kind, x)) /\ CellText(Number(kind, x)) = TextOf[x]
<1>1. ASSUME NEW t PROVE ~IsNested(Text(t)) /\ CellText(Text(t)) = t
  <2> DEFINE v == [type |-> "text", text |-> t]
  <2>1. v = Text(t) /\ v.type = "text" /\ v.text = t
    BY DEF Text
  <2>2. v # Null
    BY <2>1 DEF Null
  <2> HIDE DEF v
  <2> QED BY <2>1, <2>2 DEF CellText, IsNested
<1>2. ASSUME NEW kind \in {"int", "float", "decimal"}, NEW x
      PROVE  ~IsNested(Number(kind, x)) /\ CellText(Number(kind, x)) = TextOf[x]
  <2> DEFINE v == [type |-> kind, number |-> x]
  <2>1. v = Number(kind, x) /\ v.type = kind /\ v.number = x
    BY DEF Number
  <2>2. v # Null
    BY <2>1 DEF Null
  <2> HIDE DEF v
  <2> QED BY <2>1, <2>2 DEF CellText, IsNested
<1> QED BY <1>1, <1>2

\* A cell reads as the text it was, unless that is a number spelt another way.
LEMMA CellAlike ==
  ASSUME NEW v, ~IsNested(v), NEW infer \in {"none", "conservative"}
  PROVE  Respelt(v) \/ SameText(v, InferCell(CellText(v), infer))
<1> DEFINE text == CellText(v)
           cell == InferCell(text, infer)
<1>1. \/ cell = Text(text)
      \/ cell = Number("int", Integral[text]) /\ text \in DOMAIN Integral \ ZeroLed
      \/ cell = Number("decimal", Pointed[text]) /\ text \in DOMAIN Pointed \ ZeroLed
  <2> HIDE DEF text
  <2> QED BY DEF InferCell, ConservativeCell
<1> HIDE DEF cell
<1>2. CASE cell = Text(text)
  BY <1>2, ShownAs DEF SameText, cell
<1>3. CASE cell = Number("int", Integral[text]) /\ text \in DOMAIN Integral \ ZeroLed
  <2>1. ~IsNested(cell) /\ CellText(cell) = TextOf[Integral[text]]
    BY <1>3, ShownAs
  <2> QED BY <1>3, <2>1 DEF SameText, Respelt, cell
<1>4. CASE cell = Number("decimal", Pointed[text]) /\ text \in DOMAIN Pointed \ ZeroLed
  <2>1. ~IsNested(cell) /\ CellText(cell) = TextOf[Pointed[text]]
    BY <1>4, ShownAs
  <2> QED BY <1>4, <2>1 DEF SameText, Respelt, cell
<1> QED BY <1>1, <1>2, <1>3, <1>4

\* The sheet a table with columns becomes.
LEMMA SheetOf ==
  ASSUME NEW rs, IsTable(rs), NEW form \in Delimited, Columns(rs) # {},
         ~IsError(EncodeRecords(rs, form))
  PROVE  LET header  == InOrder(Columns(rs))
             bytes == EncodeRecords(rs, form)
         IN  /\ IsList(header) /\ Range(header) = Columns(rs)
             /\ bytes.form = form /\ bytes.header = header
             /\ bytes.rows = [i \in DOMAIN rs |->
                                  [k \in DOMAIN header |-> CellText(Value(rs[i], header[k]))]]
             /\ \A i \in DOMAIN rs, n \in Columns(rs) : ~IsNested(Value(rs[i], n))
<1> DEFINE columns == InOrder(Columns(rs))
           bytes == EncodeRecords(rs, form)
           header  == IF columns = <<>> THEN <<"">> ELSE columns
           fits    == \A i \in DOMAIN rs :
                        rs[i].type = "object" /\ \A n \in Columns(rs) : ~IsNested(Value(rs[i], n))
           cells   == [i \in DOMAIN rs |-> [k \in DOMAIN header |-> CellText(Value(rs[i], header[k]))]]
           sheet   == [form |-> form, header |-> header, rows |-> cells]
<1>1. Columns(rs) \subseteq AllKeys
  <2>1. CASE rs # <<>> /\ rs[1].type = "object"
    <3>1. rs \in Seq(Range(rs)) /\ 1 \in DOMAIN rs
      <4>1. rs \in Seq(Range(rs))
        BY DEF IsTable, IsList
      <4> QED BY <2>1, <4>1
    <3> QED BY <2>1, <3>1 DEF Columns, IsTable
  <2>2. CASE ~(rs # <<>> /\ rs[1].type = "object")
    BY <2>2 DEF Columns
  <2> QED BY <2>1, <2>2
<1>2. IsList(columns) /\ Range(columns) = Columns(rs)
  BY <1>1, KeysAssumption
<1>3. columns # <<>>
  <2>1. Range(<<>>) = {}
    BY DEF Range
  <2> QED BY <1>2, <2>1
<1>4. header = columns
  BY <1>3
<1>5. bytes = IF fits THEN sheet ELSE Error("transform", "csv_nested")
  BY DEF EncodeRecords, EncodeDelimited, Delimited, Columnar
<1>6. IsError(Error("transform", "csv_nested"))
  BY DEF IsError, Error
<1> HIDE DEF bytes, fits, cells, header, columns
<1>7. bytes = sheet /\ fits
  BY <1>5, <1>6 DEF bytes
<1> USE DEF bytes, fits, cells
<1> QED BY <1>2, <1>4, <1>7 DEF columns

LEMMA SheetAlike ==
  ASSUME NEW rs, IsTable(rs), NEW form \in Delimited, Columns(rs) # {},
         ~IsError(EncodeRecords(rs, form)), NEW infer,
         NEW d \in Decodings(EncodeRecords(rs, form), form, infer)
  PROVE  Alike(rs, form, infer, d)
<1> DEFINE header  == InOrder(Columns(rs))
           bytes == EncodeRecords(rs, form)
           At2(n)  == CHOOSE k \in DOMAIN header : header[k] = n
           read    == [i \in DOMAIN bytes.rows |->
                         [type |-> "object", fields |->
                            [n \in Range(bytes.header) |->
                               InferCell(bytes.rows[i][At2(n)], infer)]]]
<1>1. /\ IsList(header) /\ Range(header) = Columns(rs)
      /\ bytes.form = form /\ bytes.header = header
      /\ bytes.rows = [i \in DOMAIN rs |->
                           [k \in DOMAIN header |-> CellText(Value(rs[i], header[k]))]]
      /\ \A i \in DOMAIN rs, n \in Columns(rs) : ~IsNested(Value(rs[i], n))
  BY SheetOf
<1>2. \A n \in Columns(rs) : At2(n) \in DOMAIN header /\ header[At2(n)] = n
  BY <1>1 DEF Range
<1> HIDE DEF At2, header, bytes
<1>3. Decodings(bytes, form, infer) = {Rows(read)}
  <2>1. DecodeDelimited(bytes, infer) = read
    BY <1>1 DEF DecodeDelimited, Object, At2
  <2> HIDE DEF read
  <2>2. bytes.form = form /\ form \in Delimited /\ form # "jsonl"
    BY <1>1 DEF Delimited
  <2> QED BY <2>1, <2>2 DEF Decodings, Columnar, Delimited
<1>4. ~IsError(d) /\ d.rows = read
  BY <1>3, NoError DEF bytes
<1>5. IsList(rs) /\ DOMAIN read = DOMAIN rs
  BY <1>1 DEF IsTable
<1>6. Len(read) = Len(rs)
  BY <1>5, ListLength
<1>7. ASSUME infer \in {"none", "conservative"}, NEW i \in DOMAIN rs
      PROVE  ReadAlike(rs[i], read[i], Columns(rs))
  <2>1. read[i].type = "object" /\ DOMAIN read[i].fields = Columns(rs)
    BY <1>1
  <2>2. ASSUME NEW n \in Columns(rs)
        PROVE  Respelt(Value(rs[i], n)) \/ SameText(Value(rs[i], n), Value(read[i], n))
    <3>1. bytes.rows[i][At2(n)] = CellText(Value(rs[i], n))
      BY <1>1, <1>2
    <3>2. Value(read[i], n) = InferCell(bytes.rows[i][At2(n)], infer)
      BY <1>1 DEF Value
    <3>3. ~IsNested(Value(rs[i], n))
      BY <1>1
    <3> HIDE DEF read
    <3> QED BY <1>7, <3>1, <3>2, <3>3, CellAlike
  <2> HIDE DEF read
  <2> QED BY <2>1, <2>2 DEF ReadAlike
<1>8. KeptOf(rs, form) = rs /\ \A i \in DOMAIN rs : ColumnsKept(rs[i], rs, form) = Columns(rs)
  BY DEF KeptOf, ColumnsKept, Delimited, Columnar
<1> HIDE DEF read
<1> QED BY <1>4, <1>6, <1>7, <1>8 DEF Alike

\* A column of floats shows an integer as it was; nulls leave no trace.
LEMMA ColumnText ==
  ASSUME NEW v, NEW kinds, Serialized(v) # Null, Serialized(v).type \in kinds \union {"null"}
  PROVE  SameText(v, AsColumn(Serialized(v), kinds))
<1> DEFINE x == Serialized(v)
<1>1. CASE kinds # {"int", "float"}
  BY <1>1, SerializedText DEF AsColumn
<1>2. CASE kinds = {"int", "float"}
  <2>1. AsColumn(x, kinds) = Number("float", x.number)
    BY <1>2 DEF AsColumn
  <2>2. x.type \in {"int", "float", "null"}
    BY <1>2
  <2>3. x = v
    BY <2>2 DEF Serialized, SerializedAtom, Text, Array, Object
  <2>4. ~IsNested(v) /\ CellText(v) = TextOf[v.number]
    BY <2>2, <2>3 DEF IsNested, CellText
  <2>5. /\ ~IsNested(Number("float", v.number))
        /\ CellText(Number("float", v.number)) = TextOf[v.number]
    BY ShownAs
  <2> HIDE DEF x
  <2> QED BY <2>1, <2>3, <2>4, <2>5 DEF SameText, x
<1> QED BY <1>1, <1>2

LEMMA RowAlike ==
  ASSUME NEW rs, IsTable(rs), NEW i \in DOMAIN rs
  PROVE  ReadAlike(rs[i], Row(AllSerialized(rs)[i], AllSerialized(rs)), DOMAIN rs[i].fields)
<1> DEFINE all    == AllSerialized(rs)
           r      == rs[i]
           fields == all[i].fields
           kept   == {n \in DOMAIN fields : fields[n] # Null}
           w      == [type |-> "object", fields |-> [n \in kept |-> AsColumn(fields[n], Kinds(all, n))]]
<1>1. all[i] = SerializedRecord(r) /\ i \in DOMAIN all /\ r.type = "object"
  BY SerializedTable DEF IsTable
<1>2. /\ DOMAIN fields = DOMAIN r.fields
      /\ \A n \in DOMAIN r.fields : fields[n] = Serialized(r.fields[n])
  BY <1>1 DEF SerializedRecord, Object
<1>3. Row(all[i], all) = w
  BY DEF Row, Object
<1>4. \A n \in DOMAIN fields : fields[n].type \in Kinds(all, n) \union {"null"}
  BY <1>1 DEF Kinds, Value
<1> HIDE DEF all, fields
<1>5. w.type = "object" /\ DOMAIN w.fields = kept /\ kept \subseteq DOMAIN r.fields
  BY <1>2
<1>6. ASSUME NEW n \in DOMAIN r.fields PROVE SameText(Value(r, n), Value(w, n))
  <2>1. Value(r, n) = r.fields[n]
    BY DEF Value
  <2>2. CASE n \in kept
    <3>1. Value(w, n) = AsColumn(Serialized(r.fields[n]), Kinds(all, n))
      BY <1>2, <2>2 DEF Value
    <3>2. Serialized(r.fields[n]) # Null
      BY <1>2, <2>2
    <3>3. Serialized(r.fields[n]).type \in Kinds(all, n) \union {"null"}
      BY <1>2, <1>4
    <3> HIDE DEF w, kept, r
    <3> QED BY <2>1, <3>1, <3>2, <3>3, ColumnText
  <2>3. CASE n \notin kept
    <3>1. Value(w, n) = Null
      BY <1>5, <2>3 DEF Value
    <3>2. Serialized(r.fields[n]) = Null
      BY <1>2, <2>3
    <3> HIDE DEF w, kept, r
    <3> QED BY <2>1, <3>1, <3>2, SerializedText
  <2> QED BY <2>2, <2>3
<1>7. ReadAlike(r, w, DOMAIN r.fields)
  <2> HIDE DEF w, kept, r
  <2> QED BY <1>5, <1>6 DEF ReadAlike
<1> QED BY <1>3, <1>7 DEF all

LEMMA BatchAlike ==
  ASSUME NEW rs, IsTable(rs), NEW form \in Columnar, ~IsError(EncodeRecords(rs, form)), NEW infer,
         NEW d \in Decodings(EncodeRecords(rs, form), form, infer)
  PROVE  Alike(rs, form, infer, d) /\ EncodeRecords(rs, form).form = form
<1> DEFINE all     == AllSerialized(rs)
           batch   == FirstBatch(all)
           kept    == FirstBatch(rs)
           bytes == EncodeRecords(rs, form)
           read    == [i \in DOMAIN batch |-> Row(batch[i], all)]
           size    == IF Len(rs) < BatchSize THEN Len(rs) ELSE BatchSize
<1>1. bytes = EncodeColumnar(all, form)
  BY DEF EncodeRecords, Delimited, Columnar
<1>2. \A kind, code : IsError(Error(kind, code))
  BY DEF IsError, Error
<1>3. bytes = [form |-> form, values |-> read]
  BY <1>1, <1>2 DEF EncodeColumnar
<1>4. /\ IsList(rs) /\ DOMAIN rs = 1 .. Len(rs) /\ Len(rs) \in Nat
      /\ IsList(all) /\ Len(all) = Len(rs) /\ DOMAIN all = DOMAIN rs
  BY SerializedTable
<1>5. size \in 0 .. Len(rs)
  BY <1>4, BatchAssumption
<1>6. \A s : IsList(s) /\ Len(s) = Len(rs) =>
        /\ IsList(FirstBatch(s)) /\ Len(FirstBatch(s)) = size /\ DOMAIN FirstBatch(s) = 1 .. size
        /\ \A i \in 1 .. size : FirstBatch(s)[i] = s[i]
  <2> HIDE DEF size
  <2> SUFFICES ASSUME NEW s, IsList(s), Len(s) = Len(rs)
               PROVE  LET b == SubSeq(s, 1, size)
                      IN  IsList(b) /\ Len(b) = size /\ DOMAIN b = 1 .. size /\ \A i \in 1 .. size : b[i] = s[i]
    BY DEF FirstBatch, size
  <2>1. s \in Seq(Range(s)) /\ \A i \in 1 .. Len(s) : s[i] \in Range(s)
    BY LenProperties DEF IsList, Range
  <2>2. \A i \in 1 .. size : s[i] \in Range(s)
    BY <1>4, <1>5, <2>1
  <2>3. SubSeq(s, 1, size) \in Seq(Range(s)) /\ Len(SubSeq(s, 1, size)) = size
        /\ \A i \in 1 .. size : SubSeq(s, 1, size)[i] = s[i]
    BY <1>4, <1>5, <2>1, <2>2, SubSeqProperties
  <2> QED BY <2>3, SeqIsList, LenProperties
<1>7. /\ IsList(batch) /\ Len(batch) = size /\ DOMAIN batch = 1 .. size
      /\ DOMAIN kept = 1 .. size /\ Len(kept) = size
      /\ \A i \in 1 .. size : kept[i] = rs[i] /\ batch[i] = all[i]
  BY <1>4, <1>6
<1> HIDE DEF all, batch, kept, bytes, size
<1>8. Len(read) = size /\ DOMAIN read = 1 .. size
  BY <1>7, ListLength
<1>9. \A i \in 1 .. size : ReadAlike(kept[i], read[i], DOMAIN kept[i].fields)
  <2>1. \A i \in 1 .. size : i \in DOMAIN rs /\ read[i] = Row(all[i], all)
    BY <1>4, <1>5, <1>7
  <2> HIDE DEF read
  <2> QED BY <1>7, <2>1, RowAlike DEF all
<1>10. bytes.form = form /\ bytes.values = read
  BY <1>3
<1> HIDE DEF read
<1>11. Decodings(bytes, form, infer) = {Rows(read)}
  BY <1>10 DEF Decodings, Delimited, Columnar
<1>12. ~IsError(d) /\ d.rows = read
  BY <1>11, NoError DEF bytes
<1>13. KeptOf(rs, form) = kept /\ \A i \in DOMAIN kept : ColumnsKept(kept[i], rs, form) = DOMAIN kept[i].fields
  BY DEF KeptOf, ColumnsKept, Delimited, Columnar, kept
<1> QED BY <1>7, <1>8, <1>9, <1>10, <1>12, <1>13 DEF Alike, bytes

\* Whatever becomes of a table in a format reads as it was, in that format.
LEMMA FormAlike ==
  ASSUME NEW rs, IsTable(rs), NEW form \in FormatIds, ~IsError(EncodeRecords(rs, form)),
         form \in Delimited => Columns(rs) # {},
         NEW infer, NEW d \in Decodings(EncodeRecords(rs, form), form, infer)
  PROVE  Alike(rs, form, infer, d)
<1>1. form \in {"json", "yaml"} \/ form = "jsonl" \/ form \in Delimited \/ form \in Columnar
  BY DEF FormatIds
<1>2. ASSUME form = "jsonl" PROVE Alike(rs, form, infer, d)
  <2>1. d \in Decodings(EncodeRecords(rs, "jsonl"), "jsonl", infer)
    BY <1>2
  <2>2. Alike(rs, "jsonl", infer, d)
    BY <2>1, LinesAlike
  <2> QED BY <1>2, <2>2
<1> QED BY <1>1, <1>2, DocumentAlike, SheetAlike, BatchAlike

LEMMA EncodedForm ==
  ASSUME NEW rs, NEW form \in FormatIds, ~IsError(EncodeRecords(rs, form))
  PROVE  EncodeRecords(rs, form).form = form
<1>1. \A kind, code : IsError(Error(kind, code))
  BY DEF IsError, Error
<1>2. CASE form \in {"json", "yaml", "jsonl"}
  BY <1>2 DEF EncodeRecords, Delimited, Columnar
<1>3. CASE form \in Delimited
  <2>1. EncodeRecords(rs, form) = EncodeDelimited(rs, form)
    BY <1>3 DEF EncodeRecords, Delimited, Columnar
  <2>2. \A h, c : [form |-> form, header |-> h, rows |-> c].form = form
    OBVIOUS
  <2> HIDE DEF IsError, Error
  <2> QED BY <1>1, <2>1, <2>2 DEF EncodeDelimited
<1>4. CASE form \in Columnar
  <2>1. EncodeRecords(rs, form) = EncodeColumnar(AllSerialized(rs), form)
    BY <1>4 DEF EncodeRecords, Delimited, Columnar
  <2>2. \A v : [form |-> form, values |-> v].form = form
    OBVIOUS
  <2> HIDE DEF IsError, Error
  <2> QED BY <1>1, <2>1, <2>2 DEF EncodeColumnar
<1> QED BY <1>2, <1>3, <1>4 DEF FormatIds

-----------------------------------------------------------------------------
(* A reader that is told the format, in whichever way, reads it.           *)
Encoded(rs, form) == form \in FormatIds /\ ~IsError(EncodeRecords(rs, form))

Told == /\ Encoded(wrote.records, wrote.form) /\ content = EncodeRecords(wrote.records, wrote.form)
        /\ FormatIsTold /\ WrittenWhole

LEMMA ProbeAlike ==
  ASSUME Told, FormatRead = ProbeText(content), TextIsSure, wrote.form \notin Columnar,
         NEW d \in Decodings(content, FormatRead, InferUsed)
  PROVE  Alike(wrote.records, wrote.form, InferUsed, d)
<1> DEFINE rs   == wrote.records
           form == wrote.form
           all  == AllSerialized(rs)
<1>1. content.form = form /\ form \in FormatIds /\ ~IsError(content) /\ IsTable(rs)
  BY EncodedForm DEF Told, Encoded, WrittenWhole
<1>2. ASSUME FormatRead = form PROVE Alike(rs, form, InferUsed, d)
  BY <1>1, <1>2, FormAlike DEF Told, WrittenWhole
<1>3. CASE form \in {"json", "yaml"}
  <2>1. content = [form |-> form, value |-> Array(all)]
    BY <1>3 DEF Told, EncodeRecords, Delimited, Columnar
  <2>2. content.value = Array(all) /\ Array(all).type = "array"
    BY <2>1 DEF Array
  <2>3. form = "json" => ProbeText(content) = "json"
    BY <1>1, <2>2 DEF ProbeText, IsNested
  <2>4. ASSUME form = "yaml" PROVE ProbeText(content) = "yaml"
    <3>1. HasKey(content.value) /\ ~(TextsIn(content.value) \intersect WithComma # {})
      BY <1>1, <2>4 DEF TextIsSure
    <3>2. content.value # Array(<<>>)
      BY <3>1, EmptyAssumption
    <3> QED BY <1>1, <2>4, <3>1, <3>2 DEF ProbeText, YamlOrCsv
  <2> QED BY <1>2, <1>3, <2>3, <2>4
<1>4. CASE form = "jsonl"
  <2>1. content.values = all
    BY <1>4 DEF Told, EncodeRecords, Delimited, Columnar
  <2>2. /\ Len(all) = Len(rs) /\ Len(rs) \in Nat /\ DOMAIN rs = 1 .. Len(rs)
        /\ \A i \in DOMAIN rs : IsNested(all[i])
    BY <1>1, SerializedTable DEF IsNested
  <2> HIDE DEF all, rs
  <2>3. \/ ProbeText(content) = "jsonl"
        \/ ProbeText(content) = "csv" /\ Len(rs) = 0
        \/ ProbeText(content) = "json" /\ Len(rs) = 1
    BY <1>1, <1>4, <2>1, <2>2 DEF ProbeText
  <2>4. content = EncodeRecords(rs, "jsonl")
    BY <1>4 DEF Told, rs
  <2>5. Alike(rs, "jsonl", InferUsed, d)
    BY <1>1, <2>3, <2>4, LinesAlike
  <2> QED BY <1>4, <2>5 DEF rs
<1>5. CASE form \in Delimited
  <2>1. content.form = "csv" /\ form = "csv"
    BY <1>1, <1>5 DEF TextIsSure, Delimited
  <2>2. Len(content.header) > 1 \/ ~(CellsOf(content) \intersect WithColon # {})
    BY <2>1 DEF TextIsSure
  <2>3. ProbeText(content) = "csv"
    BY <2>1, <2>2 DEF ProbeText, YamlOrCsv
  <2> QED BY <1>2, <2>1, <2>3
<1> QED BY <1>1, <1>3, <1>4, <1>5 DEF FormatIds

LEMMA ToldAlike ==
  ASSUME Told, NEW d \in Decodings(content, FormatRead, InferUsed)
  PROVE  Alike(wrote.records, wrote.form, InferUsed, d)
<1>1. /\ content.form = wrote.form /\ wrote.form \in FormatIds /\ ~IsError(content)
      /\ IsTable(wrote.records)
  BY EncodedForm DEF Told, Encoded, WrittenWhole
<1>2. CASE FormatRead = wrote.form
  BY <1>1, <1>2, FormAlike DEF Told, WrittenWhole
<1>3. CASE FormatRead # wrote.form
  <2>1. InputFormat \notin FormatIds
    BY <1>1, <1>3 DEF Told, FormatIsTold, FormatRead, DetectFormat
  <2>2. wrote.form \notin Columnar
    BY <1>1, <1>3, <2>1 DEF FormatRead, DetectFormat
  <2>3. NameSays # wrote.form
    BY <1>1, <1>3, <2>1, <2>2 DEF FormatRead, DetectFormat
  <2>4. NameSays \notin FormatIds /\ TextIsSure
    BY <1>1, <2>1, <2>2, <2>3 DEF Told, FormatIsTold
  <2>5. FormatRead = ProbeText(content)
    BY <1>1, <2>1, <2>2, <2>4 DEF FormatRead, DetectFormat
  <2> QED BY <2>2, <2>4, <2>5, ProbeAlike
<1> QED BY <1>2, <1>3

-----------------------------------------------------------------------------
(* What was written last is in its file, or in the pipe, until the next    *)
(* command has read it or written over it.                                 *)
Bytes == EncodeRecords(wrote.records, wrote.form)

Kept ==
  /\ ~IsError(Bytes)
  /\ wrote.at # Nowhere => wrote.at \in DOMAIN files /\ files[wrote.at] = Bytes
  /\ wrote.at = Nowhere /\ wrote.turn = turn => todo = <<>> /\ stdout = <<Bytes>>
  /\ wrote.at = Nowhere /\ wrote.turn = turn - 1 => piped = <<Bytes>>

Remembers ==
  /\ {"records", "form", "at", "turn"} \subseteq DOMAIN wrote /\ wrote.turn \in Nat /\ wrote.turn <= turn
  /\ wrote.form \in FormatIds /\ exit \in {Running, 0} => Kept

LEMMA KeptStays ==
  ASSUME Kept, UNCHANGED <<turn, wrote, files, piped>>,
         todo = <<>> => UNCHANGED <<todo, stdout>>
  PROVE  Kept'
<1>1. Bytes' = Bytes /\ Nowhere' = Nowhere
  BY DEF Bytes, Nowhere
<1> HIDE DEF Bytes
<1> QED BY <1>1 DEF Kept, IsError

LEMMA OtherStep ==
  ASSUME Next, ~NextCommand, ~EmitToStdout, ~WriteOutput
  PROVE  /\ UNCHANGED <<turn, wrote, files, piped>> /\ exit = Running
         /\ todo = <<>> => UNCHANGED <<todo, stdout>>
<1>1. CASE EndCommand
  BY <1>1 DEF EndCommand, Only
<1>2. CASE CheckDemand \/ CheckRowLimit \/ CheckNestingDepth \/ CheckOutputBytes \/ Verdict
  BY <1>2 DEF CheckDemand, CheckRowLimit, CheckNestingDepth, CheckOutputBytes, Verdict, Check, Only, At
<1>3. CASE ReadDocument \/ LoadStdin \/ LoadFile \/ DecodeSource
  BY <1>3 DEF ReadDocument, LoadStdin, LoadFile, DecodeSource, Only, At
<1>4. CASE StageFails \/ StagePasses \/ PlanIsAmbiguous \/ PlanIsReady \/ Transformed
  BY <1>4 DEF StageFails, StagePasses, PlanIsAmbiguous, PlanIsReady, Transformed, Only, At
<1>5. CASE Encode \/ Answer \/ Report \/ WriteDenied
  BY <1>5 DEF Encode, Answer, Report, WriteDenied, Only, At
<1> QED BY <1>1, <1>2, <1>3, <1>4, <1>5 DEF Next

\* A command that has not come to its closing reads what it has fetched, and emits nothing.
LEMMA OpensHead ==
  ASSUME Formed, Opens
  PROVE  Head(todo).do # "emit" /\ (Head(todo).do = "decode" => Fetched)
<1>1. PICK q \in Seq(QuietStage) : Fetching(q) /\ todo = q \o Closing
  BY DEF Opens
<1>2. Closing \in Seq(Stage) /\ Closing # <<>>
  BY ClosingStages DEF Formed
<1>3. q \in Seq(Stage)
  BY SomeStages
<1>4. CASE q = <<>>
  <2>1. todo = Closing
    BY <1>1, <1>2, <1>4, ConcatEmptySeq
  <2>2. Head(Closing).do \notin {"emit", "decode"}
    BY ClosingIs, HeadsTails DEF Closings, Formed, IsCommand
  <2> QED BY <2>1, <2>2
<1>5. CASE q # <<>>
  <2>1. Len(q) \in Nat /\ Len(q) > 0 /\ Len(Closing) \in Nat /\ 1 \in DOMAIN q
    BY <1>2, <1>3, <1>5, EmptySeq, LenProperties
  <2>2. q[1] \in QuietStage
    BY <2>1, ElementOfSeq
  <2>3. Head(todo) = q[1]
    <3> HIDE DEF Closing, Stage
    <3>1. /\ todo \in Seq(Stage) /\ Len(todo) = Len(q) + Len(Closing)
          /\ \A i \in 1 .. Len(q) + Len(Closing) : todo[i] = IF i <= Len(q) THEN q[i] ELSE Closing[i - Len(q)]
      BY <1>1, <1>2, <1>3, ConcatProperties
    <3>2. 1 \in 1 .. Len(q) + Len(Closing) /\ 1 <= Len(q)
      BY <2>1
    <3>3. todo[1] = q[1] /\ Len(todo) > 0
      BY <2>1, <3>1, <3>2
    <3>4. todo # <<>>
      BY <3>3, EmptySeq
    <3> QED BY <3>1, <3>3, <3>4
  <2>4. q[1].do # "emit"
    BY <2>2 DEF QuietStage, QuietNames
  <2>5. q[1].do = "decode" => Fetched
    BY <1>1, <2>1 DEF Fetching
  <2> QED BY <2>3, <2>4, <2>5
<1> QED BY <1>4, <1>5

LEMMA DecodesFetched ==
  ASSUME Formed, Truth, At("decode")
  PROVE  Fetched
<1>1. exit = Running /\ todo # <<>> /\ Head(todo).do = "decode"
  BY DEF At
<1>2. ~Judges /\ ~Done /\ ~Delivers
  BY <1>1, HeadsTails DEF Judges, Done, Delivers
<1> QED BY <1>1, <1>2, OpensHead DEF Truth

\* At its last stage, a command that makes an output has it ready, and has printed nothing.
LEMMA ReadyToEmit ==
  ASSUME Formed, Truth, At("emit")
  PROVE  /\ Tail(todo) = <<>>
         /\ Makes => content = EncodeRecords(records, cmd.to) /\ ~IsError(content) /\ stdout = <<>>
<1>1. exit = Running /\ todo # <<>> /\ Head(todo).do = "emit"
  BY DEF At
<1>2. ~Opens
  BY <1>1, OpensHead
<1>3. ~Judges /\ ~Done
  BY <1>1, HeadsTails DEF Judges, Done
<1>4. Delivers
  BY <1>1, <1>2, <1>3 DEF Truth
<1>5. todo = <<[do |-> "emit"]>>
  <2>1. todo # <<[do |-> "size"], [do |-> "emit"]>>
    BY <1>1, HeadsTails
  <2> QED BY <1>4, <2>1 DEF Delivers
<1>6. Tail(todo) = <<>>
  BY <1>5, HeadsTails
<1>7. Makes => content = EncodeRecords(records, cmd.to) /\ ~IsError(content) /\ stdout = <<>>
  BY <1>4 DEF Delivers, Untouched, Result, Makes
<1> QED BY <1>6, <1>7

LEMMA PrintRemembers ==
  ASSUME Grounded, Truth, Remembers, EmitToStdout
  PROVE  Remembers'
<1>1. /\ At("emit") /\ UNCHANGED <<turn, piped, files, exit>> /\ todo' = Tail(todo)
      /\ stdout' = Append(stdout, content)
      /\ wrote' = [records |-> records, at |-> Nowhere, turn |-> turn,
                   form |-> IF Makes THEN cmd.to ELSE "document"]
  BY DEF EmitToStdout, Only, Pass, Written, Makes
<1>2. turn \in Nat /\ turn # turn - 1
  BY DEF Grounded, InSession
<1>3. /\ wrote'.records = records /\ wrote'.at = Nowhere /\ wrote'.turn = turn
      /\ wrote'.form = IF Makes THEN cmd.to ELSE "document"
      /\ {"records", "form", "at", "turn"} \subseteq DOMAIN wrote'
  BY <1>1
<1>4. "document" \notin FormatIds
  BY DEF FormatIds, Delimited, Columnar
<1>5. FormatIds' = FormatIds /\ Nowhere' = Nowhere
  BY DEF FormatIds, Delimited, Columnar, Nowhere
<1>6. ASSUME Makes PROVE Kept'
  <2>1. Tail(todo) = <<>> /\ content = EncodeRecords(records, cmd.to) /\ ~IsError(content) /\ stdout = <<>>
    BY <1>1, <1>6, CommandShape, ReadyToEmit DEF Formed, Grounded
  <2>2. Bytes' = content
    BY <1>3, <1>6, <2>1 DEF Bytes
  <2>3. stdout' = <<content>>
    BY <1>1, <2>1
  <2> QED BY <1>1, <1>2, <1>3, <1>5, <2>1, <2>2, <2>3 DEF Kept, IsError
<1> QED BY <1>1, <1>2, <1>3, <1>4, <1>5, <1>6 DEF Remembers

LEMMA WriteRemembers ==
  ASSUME Grounded, Truth, Remembers, WriteOutput
  PROVE  Remembers'
<1> DEFINE target == Place(cmd.output)
<1>1. At("emit") /\ UNCHANGED <<turn, piped, stdout>> /\ Running' = Running
  BY DEF WriteOutput, Only, Running
<1>2. turn \in Nat /\ FormatIds' = FormatIds /\ Nowhere' = Nowhere
  BY DEF Grounded, InSession, FormatIds, Delimited, Columnar, Nowhere
<1>3. CASE Fail("io") /\ UNCHANGED wrote
  <2>1. exit' \notin {Running, 0}
    BY <1>3, ExitCodes DEF Fail
  <2> QED BY <1>1, <1>2, <1>3, <2>1 DEF Remembers
<1>4. TakesBytes(Parts(cmd.output), dirs') => target # Nowhere
  <2>1. <<>> \in dirs'
    BY DEF WriteOutput, WithParents, Grounded
  <2> QED BY <2>1 DEF TakesBytes, Place, Nowhere
<1>5. CASE Pass /\ target # Nowhere /\ files' = FilesWith(target, content) /\ Written(target)
  <2>1. /\ wrote' = [records |-> records, at |-> target, turn |-> turn,
                     form |-> IF Makes THEN cmd.to ELSE "document"]
    BY <1>5 DEF Written, Makes
  <2>2. /\ wrote'.records = records /\ wrote'.at = target /\ wrote'.turn = turn
        /\ wrote'.form = IF Makes THEN cmd.to ELSE "document"
        /\ {"records", "form", "at", "turn"} \subseteq DOMAIN wrote'
    BY <2>1
  <2>3. target # Nowhere
    BY <1>5
  <2>4. target \in DOMAIN files' /\ files'[target] = content
    BY <1>5 DEF FilesWith
  <2>5. "document" \notin FormatIds
    BY DEF FormatIds, Delimited, Columnar
  <2>6. ASSUME Makes PROVE Kept'
    <3>1. content = EncodeRecords(records, cmd.to) /\ ~IsError(content)
      BY <1>1, <2>6, CommandShape, ReadyToEmit DEF Formed, Grounded
    <3>2. Bytes' = content
      BY <2>2, <2>6, <3>1 DEF Bytes
    <3> HIDE DEF target
    <3> QED BY <1>2, <2>2, <2>3, <2>4, <3>1, <3>2 DEF Kept, IsError
  <2> HIDE DEF target
  <2> QED BY <1>1, <1>2, <2>2, <2>5, <2>6 DEF Remembers
<1> QED BY <1>3, <1>4, <1>5 DEF WriteOutput

\* A redirection takes what was printed; the next command finds the rest in the pipe.
LEMMA NextRemembers ==
  ASSUME Grounded, Truth, Remembers, NextCommand
  PROVE  Remembers'
<1> DEFINE target == Place(cmd.redirect)
<1>1. /\ exit = 0 /\ turn' = turn + 1 /\ files' = Redirected /\ wrote' = WroteRedirected
      /\ piped' = IF cmd.redirect = Missing THEN stdout ELSE <<>>
  BY DEF NextCommand
<1>2. turn \in Nat /\ wrote.turn \in Nat /\ wrote.turn <= turn /\ turn # turn - 1
  BY DEF Grounded, InSession, Remembers
<1>3. FormatIds' = FormatIds /\ Nowhere' = Nowhere
  BY DEF FormatIds, Delimited, Columnar, Nowhere
<1>4. wrote.form \in FormatIds => Kept
  BY <1>1 DEF Remembers
<1>5. turn' - 1 = turn /\ wrote.turn # turn'
  BY <1>1, <1>2
<1>6. CASE cmd.redirect = Missing
  <2>1. UNCHANGED <<wrote, files>> /\ piped' = stdout
    BY <1>1, <1>6 DEF WroteRedirected, Redirected
  <2>2. Bytes' = Bytes
    BY <2>1 DEF Bytes
  <2> HIDE DEF Bytes
  <2>3. Kept => Kept'
    BY <1>1, <1>3, <1>5, <2>1, <2>2 DEF Kept, IsError
  <2> QED BY <1>1, <1>2, <1>3, <1>4, <2>1, <2>3 DEF Remembers
<1>7. CASE cmd.redirect # Missing
  <2>1. target # Nowhere
    BY <1>7, CommandShape DEF Grounded, IsCommand
  <2>2. files' = FilesWith(target, Joined(stdout))
    BY <1>1, <1>7 DEF Redirected
  <2>3. /\ target \in DOMAIN files' /\ files'[target] = Joined(stdout)
        /\ \A f \in DOMAIN files : f \in DOMAIN files' /\ (f # target => files'[f] = files[f])
    BY <2>2 DEF FilesWith
  <2>4. CASE wrote.turn = turn /\ wrote.at = Nowhere
    <3>1. wrote' = [wrote EXCEPT !.at = target]
      BY <1>1, <1>7, <2>4 DEF WroteRedirected
    <3>2. wrote'.at = target /\ wrote'.records = wrote.records /\ wrote'.turn = turn /\ wrote'.form = wrote.form
      BY <2>4, <3>1 DEF Remembers
    <3>3. Bytes' = Bytes /\ DOMAIN wrote' = DOMAIN wrote
      BY <3>1, <3>2 DEF Bytes
    <3> HIDE DEF Bytes, target
    <3>4. ASSUME Kept PROVE Kept'
      <4>1. stdout = <<Bytes>> /\ ~IsError(Bytes)
        BY <2>4, <3>4 DEF Kept
      <4>2. Joined(stdout) = Bytes
        BY <4>1 DEF Joined
      <4> QED BY <1>3, <2>1, <2>3, <3>2, <3>3, <4>1, <4>2 DEF Kept, IsError
    <3> QED BY <1>1, <1>2, <1>3, <1>4, <3>2, <3>3, <3>4 DEF Remembers
  <2>5. CASE ~(wrote.turn = turn /\ wrote.at = Nowhere) /\ wrote.at = target
    <3>1. wrote' = Unwritten
      BY <1>1, <1>7, <2>5 DEF WroteRedirected
    <3>2. /\ wrote'.turn = 0 /\ wrote'.form = "none" /\ "none" \notin FormatIds
          /\ {"records", "form", "at", "turn"} \subseteq DOMAIN wrote'
      BY <3>1 DEF Unwritten, FormatIds, Delimited, Columnar
    <3> QED BY <1>1, <1>2, <1>3, <3>2 DEF Remembers
  <2>6. CASE ~(wrote.turn = turn /\ wrote.at = Nowhere) /\ wrote.at # target
    <3>1. UNCHANGED wrote
      BY <1>1, <1>7, <2>6 DEF WroteRedirected
    <3>2. Bytes' = Bytes
      BY <3>1 DEF Bytes
    <3> HIDE DEF Bytes, target
    <3>3. Kept => Kept'
      BY <1>1, <1>3, <1>5, <2>3, <2>6, <3>1, <3>2 DEF Kept, IsError
    <3> QED BY <1>1, <1>2, <1>3, <1>4, <3>1, <3>3 DEF Remembers
  <2> QED BY <2>4, <2>5, <2>6
<1> QED BY <1>6, <1>7

LEMMA RemembersStep == Grounded /\ Truth /\ Remembers /\ [Next]_vars => Remembers'
<1> SUFFICES ASSUME Grounded, Truth, Remembers, [Next]_vars PROVE Remembers'
  OBVIOUS
<1>1. FormatIds' = FormatIds /\ Running' = Running /\ 0 # Running
  BY DEF FormatIds, Delimited, Columnar, Running
<1>2. CASE UNCHANGED vars
  <2>1. UNCHANGED <<turn, wrote, files, piped, exit, todo, stdout>>
    BY <1>2 DEF vars
  <2>2. Kept => Kept'
    BY <2>1, KeptStays
  <2> QED BY <1>1, <2>1, <2>2 DEF Remembers
<1>3. CASE Next /\ ~NextCommand /\ ~EmitToStdout /\ ~WriteOutput
  <2>1. /\ UNCHANGED <<turn, wrote, files, piped>> /\ exit = Running
        /\ todo = <<>> => UNCHANGED <<todo, stdout>>
    BY <1>3, OtherStep
  <2>2. Kept => Kept'
    BY <2>1, KeptStays
  <2> QED BY <1>1, <2>1, <2>2 DEF Remembers
<1> QED BY <1>2, <1>3, PrintRemembers, WriteRemembers, NextRemembers

LEMMA RememberedAlike ==
  ASSUME Grounded, Truth, Remembers
  PROVE  ReadsBackAlike
<1> SUFFICES ASSUME ReadsWhatWasWritten, FormatIsTold, WrittenWhole
             PROVE  \A d \in Decodings(content, FormatRead, InferUsed) :
                      Alike(wrote.records, wrote.form, InferUsed, d)
  BY DEF ReadsBackAlike, Alike
<1>1. At("decode") /\ wrote.form \in FormatIds /\ exit = Running
  BY DEF ReadsWhatWasWritten, At
<1>2. Kept
  BY <1>1 DEF Remembers
<1>3. Fetched
  BY <1>1, CommandShape, DecodesFetched DEF Grounded, Formed
<1>4. content = Bytes
  <2>1. CASE place # Nowhere /\ wrote.at = place
    BY <1>2, <1>3, <2>1 DEF Kept, Fetched
  <2>2. CASE place = Nowhere /\ wrote.at = Nowhere /\ wrote.turn = turn - 1
    <3>1. piped = <<Bytes>> /\ content = Joined(piped)
      BY <1>2, <1>3, <2>2 DEF Kept, Fetched
    <3> HIDE DEF Bytes
    <3> QED BY <3>1 DEF Joined
  <2> QED BY <2>1, <2>2 DEF ReadsWhatWasWritten
<1>5. Told
  BY <1>1, <1>2, <1>4 DEF Told, Encoded, Kept, Bytes
<1> QED BY <1>5, ToldAlike

(***************************************************************************)
(* What one command has written, to a file or into the pipe, the next one  *)
(* reads as it was, if it is told the format in one of the ways there are  *)
(* (detect_format, decode, encode): as many records, with the texts they   *)
(* had, for any table, any format and any session.                         *)
(***************************************************************************)
THEOREM WrittenReadsBack == Spec => []ReadsBackAlike
<1>1. Init => Grounded /\ Truth
  BY InitGrounded, InitTruth
<1>2. Init => Remembers
  <2> SUFFICES ASSUME Init PROVE Remembers
    OBVIOUS
  <2>1. wrote = Unwritten /\ turn = 1
    BY DEF Init
  <2> QED BY <2>1 DEF Remembers, Unwritten, FormatIds, Delimited, Columnar
<1>3. Grounded /\ Truth /\ Remembers => ReadsBackAlike
  BY RememberedAlike
<1> QED BY <1>1, <1>2, <1>3, GroundedStep, TruthStep, RemembersStep, PTL DEF Spec

=============================================================================
