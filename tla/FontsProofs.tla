------------------------------ MODULE FontsProofs ------------------------------
(***************************************************************************)
(* No font of the database is opened twice for a logical font, and symbols *)
(* keep their glyphs, whatever fonts there are, whatever the provider adds *)
(* on demand, however many threads ask for symbols and in whatever order.  *)
(***************************************************************************)
EXTENDS Fonts, WellFoundedInduction, SequenceTheorems, TLAPS

\* A database as AddFonts makes it: the uid of an entry is its place.
Numbered(sel) ==
  /\ sel \in Selector
  /\ sel.uid = Len(sel.font_infos) + 1
  /\ \A k \in DOMAIN sel.font_infos : sel.font_infos[k].uid = k

\* The k-th entry is the first of its file.
First(sel, k) ==
  /\ k \in DOMAIN sel.font_infos
  /\ \A j \in 1 .. k - 1 : sel.font_infos[j].file # sel.font_infos[k].file

\* The second database has what is in the first, and perhaps more behind it.
Grown(sel, more) ==
  /\ Len(sel.font_infos) <= Len(more.font_infos)
  /\ \A k \in DOMAIN sel.font_infos : more.font_infos[k] = sel.font_infos[k]

\* A face has a charmap of its font, if any; one from the database is the
\* first entry there that has its file.
FaceOK(sel, face) ==
  /\ face.charmap \in 0 .. Len(Font[face.file].charmaps)
  /\ face.listed => First(sel, face.uid) /\ sel.font_infos[face.uid].file = face.file

FacesOK(sel, faces) ==
  /\ faces \in Seq(Face) /\ Len(faces) <= MaxFaces
  /\ \A k \in DOMAIN faces : FaceOK(sel, faces[k])
  /\ \A j, k \in DOMAIN faces :
       faces[j].listed /\ faces[k].listed /\ faces[j].uid = faces[k].uid => j = k

\* A glyph handed out is the one of the first face that has it, unless a
\* charmap has been changed there or before.
StillDrawn(g, faces, changed) ==
  /\ g.face \in DOMAIN faces
  /\ (\A k \in 1 .. g.face : <<g.desc, k>> \notin changed) =>
       /\ faces[g.face].file = g.file
       /\ GlyphIn(faces[g.face], g.symbol) = g.glyph /\ g.glyph # 0
       /\ \A k \in 1 .. g.face - 1 : GlyphIn(faces[k], g.symbol) = 0

Sound == /\ Numbered(selector)
         /\ \A d \in Descs : FacesOK(selector, fonts[d])
         /\ \A g \in drawn : StillDrawn(g, fonts[g.desc], switched)

IInv == TypeOK /\ Sound

-----------------------------------------------------------------------------
(* Least elements                                                          *)

\* A set of natural numbers that is not empty has a least element.
LEMMA LeastElement ==
  ASSUME NEW S, S \subseteq Nat, S # {}
  PROVE  \E t \in S : \A u \in S : t <= u
<1> DEFINE R == {ss \in Nat \X Nat : ss[1] < ss[2]}
<1>1. IsWellFoundedOn(R, Nat)
  BY NatLessThanWellFounded, Zenon DEF OpToRel
<1>2. \A x, y \in Nat : <<y, x>> \notin R => x <= y
  OBVIOUS
<1> HIDE DEF R
<1>3. PICK t \in S : \A u \in S : ~ (<<u, t>> \in R)
  BY <1>1, WFMin
<1> QED BY <1>2, <1>3

\* Least is what its name says.
LEMMA LeastIsLeast ==
  ASSUME NEW S, S \subseteq Nat, S # {}
  PROVE  Least(S) \in S /\ Least(S) \in Nat /\ \A u \in S : Least(S) <= u
<1>1. \E t \in S : \A u \in S : t <= u
  BY LeastElement
<1> QED BY <1>1 DEF Least

-----------------------------------------------------------------------------
(* The database                                                            *)

\* What the assumptions say of one font.
LEMMA FontFields ==
  ASSUME NEW f \in Files
  PROVE  /\ Font[f] \in FontInfo
         /\ Font[f].weight \in Nat /\ Font[f].charmaps \in Seq(Charmap)
         /\ Font[f].charmap \in 0 .. Len(Font[f].charmaps)
         /\ Len(Font[f].charmaps) \in Nat
         /\ DOMAIN Font[f].charmaps = 1 .. Len(Font[f].charmaps)
<1>1. Font[f] \in FontInfo /\ Font[f].charmap \in 0 .. Len(Font[f].charmaps)
  BY FontSelectAssumption
<1>2. Font[f].weight \in Nat /\ Font[f].charmaps \in Seq(Charmap)
  BY <1>1 DEF FontInfo
<1>3. /\ Len(Font[f].charmaps) \in Nat
      /\ DOMAIN Font[f].charmaps = 1 .. Len(Font[f].charmaps)
  BY <1>2, LenProperties
<1> QED BY <1>1, <1>2, <1>3

\* What a database is made of.
LEMMA SelectorFields ==
  ASSUME NEW sel, Numbered(sel)
  PROVE  /\ sel.font_infos \in Seq(Entry) /\ sel.uid \in Nat
         /\ Len(sel.font_infos) \in Nat
         /\ DOMAIN sel.font_infos = 1 .. Len(sel.font_infos)
         /\ \A k \in DOMAIN sel.font_infos :
              /\ sel.font_infos[k] \in Entry
              /\ sel.font_infos[k].file \in Files /\ sel.font_infos[k].uid = k
<1>1. sel.font_infos \in Seq(Entry) /\ sel.uid \in Nat
  BY DEF Numbered, Selector
<1>2. /\ Len(sel.font_infos) \in Nat
      /\ DOMAIN sel.font_infos = 1 .. Len(sel.font_infos)
      /\ \A k \in DOMAIN sel.font_infos : sel.font_infos[k] \in Entry
  BY <1>1, LenProperties
<1>3. \A k \in DOMAIN sel.font_infos : sel.font_infos[k].file \in Files
  BY <1>2 DEF Entry
<1> QED BY <1>1, <1>2, <1>3 DEF Numbered

\* The database of no fonts.
LEMMA EmptyNumbered == Numbered(Empty)
<1>1. Empty.font_infos = <<>> /\ Empty.uid = 1
  BY DEF Empty
<1>2. Len(Empty.font_infos) = 0 /\ DOMAIN Empty.font_infos = {}
  BY <1>1
<1>3. Empty \in Selector
  BY EmptySeq DEF Empty, Selector
<1> QED BY <1>1, <1>2, <1>3 DEF Numbered

\* Fonts are added behind those that are there, with uids that go on.
LEMMA AddFontsGrown ==
  ASSUME NEW sel, Numbered(sel), NEW files \in Seq(Files)
  PROVE  Numbered(AddFonts(sel, files)) /\ Grown(sel, AddFonts(sel, files))
<1> DEFINE old == sel.font_infos
           n   == Len(old)
           new == [k \in DOMAIN files |-> [uid |-> sel.uid + k - 1, file |-> files[k]]]
           m   == Len(files)
           all == AddFonts(sel, files)
<1>1. /\ old \in Seq(Entry) /\ n \in Nat /\ DOMAIN old = 1 .. n
      /\ sel.uid = n + 1 /\ \A k \in DOMAIN old : old[k].uid = k
  BY SelectorFields DEF Numbered
<1>2. m \in Nat /\ DOMAIN files = 1 .. m /\ \A k \in 1 .. m : files[k] \in Files
  BY LenProperties
<1>3. new \in Seq(Entry) /\ Len(new) = m
  <2>1. \A k \in 1 .. m : new[k] \in Entry
    BY <1>1, <1>2 DEF Entry
  <2>2. new \in [1 .. m -> Entry]
    BY <1>2, <2>1
  <2> HIDE DEF new
  <2> QED BY <1>2, <2>2
<1>4. \A k \in 1 .. m : new[k].uid = n + k
  BY <1>1, <1>2
<1>5. /\ all.font_infos = old \o new /\ all.uid = n + 1 + m
      /\ all \in [font_infos : {old \o new}, uid : {n + 1 + m}]
  BY <1>1 DEF AddFonts
<1> HIDE DEF new, old, n, m, all
<1>6. /\ old \o new \in Seq(Entry) /\ Len(old \o new) = n + m
      /\ \A k \in 1 .. n + m : (old \o new)[k] = IF k <= n THEN old[k] ELSE new[k - n]
      /\ DOMAIN (old \o new) = 1 .. n + m
  <2>1. Len(old) = n /\ Len(new) = m
    BY <1>3 DEF n
  <2>2. /\ old \o new \in Seq(Entry) /\ Len(old \o new) = n + m
        /\ \A k \in 1 .. n + m : (old \o new)[k] = IF k <= n THEN old[k] ELSE new[k - n]
    <3>1. /\ old \o new \in Seq(Entry) /\ Len(old \o new) = Len(old) + Len(new)
          /\ \A k \in 1 .. Len(old) + Len(new) :
               (old \o new)[k] = IF k <= Len(old) THEN old[k] ELSE new[k - Len(old)]
      BY <1>1, <1>3, ConcatProperties, Zenon
    <3> QED BY <2>1, <3>1, Zenon
  <2> QED BY <2>2, LenProperties
<1>7. \A k \in 1 .. n + m : (old \o new)[k].uid = k
  <2> SUFFICES ASSUME NEW k \in 1 .. n + m PROVE (old \o new)[k].uid = k
    OBVIOUS
  <2>0. k <= n \/ k > n
    BY <1>1, <1>2
  <2>1. CASE k <= n
    BY <1>1, <1>2, <1>6, <2>1
  <2>2. CASE k > n
    <3>1. k - n \in 1 .. m
      BY <1>1, <1>2, <2>2
    <3>2. new[k - n].uid = n + (k - n)
      BY <1>4, <3>1
    <3> QED BY <1>1, <1>2, <1>6, <2>2, <3>2
  <2> QED BY <2>0, <2>1, <2>2, Zenon
<1>8. Numbered(all)
  <2>1. all \in Selector
    <3>1. n + 1 + m \in Nat
      BY <1>1, <1>2
    <3> QED BY <1>5, <1>6, <3>1 DEF Selector
  <2>2. all.uid = Len(all.font_infos) + 1
    BY <1>1, <1>2, <1>5, <1>6
  <2> QED BY <1>5, <1>6, <1>7, <2>1, <2>2 DEF Numbered
<1>9. Grown(sel, all)
  <2>1. n <= n + m /\ \A k \in 1 .. n : k \in 1 .. n + m /\ k <= n
    BY <1>1, <1>2
  <2> QED BY <1>1, <1>5, <1>6, <2>1 DEF Grown, old, n
<1> QED BY <1>8, <1>9 DEF all

\* A database that has grown twice has grown.
LEMMA GrownTwice ==
  ASSUME NEW s1, NEW s2, NEW s3, Numbered(s1), Numbered(s2), Numbered(s3),
         Grown(s1, s2), Grown(s2, s3)
  PROVE  Grown(s1, s3)
<1>1. /\ Len(s1.font_infos) \in Nat /\ DOMAIN s1.font_infos = 1 .. Len(s1.font_infos)
      /\ Len(s2.font_infos) \in Nat /\ DOMAIN s2.font_infos = 1 .. Len(s2.font_infos)
      /\ Len(s3.font_infos) \in Nat
  BY SelectorFields
<1> QED BY <1>1 DEF Grown

\* What was the first of its file still is when the database has grown.
LEMMA FirstStays ==
  ASSUME NEW sel, NEW more, Numbered(sel), Numbered(more), Grown(sel, more),
         NEW k, First(sel, k)
  PROVE  First(more, k) /\ more.font_infos[k] = sel.font_infos[k]
<1>1. /\ Len(sel.font_infos) \in Nat /\ DOMAIN sel.font_infos = 1 .. Len(sel.font_infos)
      /\ Len(more.font_infos) \in Nat /\ DOMAIN more.font_infos = 1 .. Len(more.font_infos)
  BY SelectorFields
<1>2. k \in 1 .. Len(sel.font_infos) /\ Len(sel.font_infos) <= Len(more.font_infos)
  BY <1>1 DEF First, Grown
<1>3. \A j \in 1 .. k : j \in DOMAIN sel.font_infos /\ j \in DOMAIN more.font_infos
  BY <1>1, <1>2
<1>4. k \in 1 .. k /\ \A j \in 1 .. k - 1 : j \in 1 .. k
  BY <1>1, <1>2
<1>5. \A j \in 1 .. k : more.font_infos[j] = sel.font_infos[j]
  BY <1>3 DEF Grown
<1> QED BY <1>3, <1>4, <1>5 DEF First

\* The faces of a font are as sound as they were when the database has grown.
LEMMA FacesStay ==
  ASSUME NEW sel, NEW more, Numbered(sel), Numbered(more), Grown(sel, more),
         NEW faces, FacesOK(sel, faces)
  PROVE  FacesOK(more, faces)
<1>1. \A k \in DOMAIN faces : FaceOK(more, faces[k])
  <2> SUFFICES ASSUME NEW k \in DOMAIN faces PROVE FaceOK(more, faces[k])
    OBVIOUS
  <2>1. FaceOK(sel, faces[k])
    BY DEF FacesOK
  <2> QED BY <2>1, FirstStays DEF FaceOK
<1> QED BY <1>1 DEF FacesOK

-----------------------------------------------------------------------------
(* The search                                                              *)

\* The result of a search: the database has perhaps grown, and what is found
\* is the first entry of its file.
FoundOK(sel, r) ==
  /\ Numbered(r.sel) /\ Grown(sel, r.sel)
  /\ r.at \in Nat /\ (r.at # 0 => First(r.sel, r.at))

\* Scores are natural numbers.
LEMMA ScoreType ==
  ASSUME NEW f \in Files, NEW name, NEW extended, NEW desc \in FontDesc
  PROVE  Score(f, name, extended, desc) \in Nat
<1> DEFINE faux  == desc.bold > Font[f].weight + 150 /\ ~Font[f].bold
           slant == IF desc.italic # 0 /\ ~Font[f].italic THEN 1
                    ELSE IF desc.italic = 0 /\ Font[f].italic THEN 4 ELSE 0
           heavy == Font[f].weight + (IF faux THEN 120 ELSE 0)
           far   == Distance(heavy, desc.bold)
<1>1. Font[f].weight \in Nat /\ desc.bold \in Nat
  BY FontFields DEF FontDesc
<1>2. slant \in Nat
  OBVIOUS
<1>3. heavy \in Nat
  BY <1>1
<1> HIDE DEF faux, slant, heavy
<1>4. far \in Nat
  BY <1>1, <1>3 DEF Distance
<1> HIDE DEF far
<1>5. (73 * far) \div 256 \in Nat
  BY <1>4
<1>6. slant + (73 * far) \div 256 \in Nat
  BY <1>2, <1>5
<1>7. Score(f, name, extended, desc) =
        IF MatchesFamilyName(f, name, extended) THEN slant + (73 * far) \div 256 ELSE 0
  BY DEF Score, slant, far, heavy, faux
<1> QED BY <1>6, <1>7

\* Whether an entry is a candidate, and its score, depend on its file only:
\* the best one is the first of its file.
LEMMA BestIsFirst ==
  ASSUME NEW sel, Numbered(sel), NEW name, NEW extended \in BOOLEAN,
         NEW desc \in FontDesc, NEW code,
         Candidates(sel, name, extended, code) # {}
  PROVE  First(sel, Best(sel, name, extended, desc, code))
<1> DEFINE S == Candidates(sel, name, extended, code)
           file(k) == sel.font_infos[k].file
           score(k) == Score(file(k), name, extended, desc)
           lowest == {k \in S : \A j \in S : score(k) <= score(j)}
           best == Best(sel, name, extended, desc, code)
<1>1. /\ DOMAIN sel.font_infos = 1 .. Len(sel.font_infos)
      /\ Len(sel.font_infos) \in Nat
      /\ \A k \in DOMAIN sel.font_infos : sel.font_infos[k].file \in Files
  BY SelectorFields
<1>2. S \subseteq DOMAIN sel.font_infos /\ S \subseteq Nat /\ S # {}
  BY <1>1 DEF Candidates
<1>3. \A k \in S : score(k) \in Nat
  BY <1>1, <1>2, ScoreType
<1>4. best = Least(lowest)
  BY DEF Best
<1>5. \A k \in S, j \in DOMAIN sel.font_infos : file(j) = file(k) => j \in S
  BY DEF Candidates
<1>6. \A j, k : file(j) = file(k) => score(j) = score(k)
  OBVIOUS
<1> HIDE DEF S, score, best
<1>7. lowest # {}
  <2> DEFINE scores == {score(k) : k \in S}
  <2>1. scores \subseteq Nat /\ scores # {}
    BY <1>2, <1>3
  <2>2. PICK t \in scores : \A u \in scores : t <= u
    BY <2>1, LeastElement
  <2>3. PICK k \in S : t = score(k)
    BY <2>2
  <2> QED BY <2>2, <2>3
<1>8. best \in lowest /\ \A k \in lowest : best <= k
  <2>1. lowest \subseteq Nat
    BY <1>2
  <2> HIDE DEF lowest
  <2> QED BY <1>4, <1>7, <2>1, LeastIsLeast
<1>9. \A j \in 1 .. best - 1 : file(j) # file(best)
  <2> SUFFICES ASSUME NEW j \in 1 .. best - 1, file(j) = file(best) PROVE FALSE
    OBVIOUS
  <2>1. best \in S /\ best \in 1 .. Len(sel.font_infos)
    BY <1>1, <1>2, <1>8
  <2>2. j \in DOMAIN sel.font_infos /\ ~(best <= j)
    BY <1>1, <2>1
  <2>3. j \in S /\ score(j) = score(best)
    BY <1>5, <1>6, <2>1, <2>2
  <2>4. j \in lowest
    BY <1>8, <2>3
  <2> QED BY <1>8, <2>2, <2>4
<1> QED BY <1>2, <1>8, <1>9 DEF First, best

\* So is what find_font finds.
LEMMA FindFontFirst ==
  ASSUME NEW sel, Numbered(sel), NEW names \in Seq(Names), NEW extended \in BOOLEAN,
         NEW desc \in FontDesc, NEW code
  PROVE  LET k == FindFont(sel, names, extended, desc, code)
         IN  k \in Nat /\ (k # 0 => First(sel, k))
<1> DEFINE found == {n \in DOMAIN names : Candidates(sel, names[n], extended, code) # {}}
           k == FindFont(sel, names, extended, desc, code)
           best == Best(sel, names[Least(found)], extended, desc, code)
<1>1. k = IF found = {} THEN 0 ELSE best
  BY DEF FindFont
<1>2. CASE found = {}
  BY <1>1, <1>2
<1>3. CASE found # {}
  <2>1. found \subseteq Nat
    BY LenProperties
  <2>2. Least(found) \in found
    <3> HIDE DEF found
    <3> QED BY <1>3, <2>1, LeastIsLeast
  <2>3. First(sel, best)
    BY <2>2, BestIsFirst
  <2>4. best \in Nat
    BY <2>3, SelectorFields DEF First
  <2> QED BY <1>1, <1>3, <2>3, <2>4
<1> QED BY <1>2, <1>3

\* The names a family goes by.
LEMMA NamesForType ==
  ASSUME NEW family \in Names
  PROVE  /\ NamesFor(family) \in Seq(Names)
         /\ NamesFor(family)[1] \in Names
<1>1. Substitutes[family] \in Seq(Names)
  BY FontSelectAssumption
<1>2. CASE Substitutes[family] = <<>>
  <2>1. NamesFor(family) = <<family>>
    BY <1>2 DEF NamesFor
  <2> QED BY <2>1
<1>3. CASE Substitutes[family] # <<>>
  <2>1. NamesFor(family) = Substitutes[family]
    BY <1>3 DEF NamesFor
  <2>2. 1 \in 1 .. Len(Substitutes[family])
    BY <1>1, <1>3, EmptySeq
  <2> QED BY <1>1, <2>1, <2>2, ElementOfSeq
<1> QED BY <1>2, <1>3

\* A search by name, with what the provider adds for it.
LEMMA SelectFontOK ==
  ASSUME NEW sel, Numbered(sel), NEW names \in Seq(Names), names[1] \in Names,
         NEW extended \in BOOLEAN, NEW desc \in FontDesc, NEW code
  PROVE  FoundOK(sel, SelectFont(sel, names, extended, desc, code))
<1> DEFINE more == AddFonts(sel, MatchFonts[names[1]])
           r == SelectFont(sel, names, extended, desc, code)
<1>1. CASE NameMatch(sel, names, extended)
  <2>1. r = Found(sel, FindFont(sel, names, extended, desc, code))
    BY <1>1 DEF SelectFont
  <2>2. r.sel = sel /\ r.at = FindFont(sel, names, extended, desc, code)
    BY <2>1 DEF Found
  <2>3. r.at \in Nat /\ (r.at # 0 => First(sel, r.at))
    BY <2>2, FindFontFirst
  <2>4. Grown(sel, sel)
    BY SelectorFields DEF Grown
  <2> QED BY <2>2, <2>3, <2>4 DEF FoundOK
<1>2. CASE ~NameMatch(sel, names, extended)
  <2>1. r = Found(more, FindFont(more, names, extended, desc, code))
    BY <1>2 DEF SelectFont, Again
  <2>2. r.sel = more /\ r.at = FindFont(more, names, extended, desc, code)
    BY <2>1 DEF Found
  <2>3. MatchFonts[names[1]] \in Seq(Files)
    BY FontSelectAssumption
  <2>4. Numbered(more) /\ Grown(sel, more)
    BY <2>3, AddFontsGrown
  <2> HIDE DEF more
  <2>5. r.at \in Nat /\ (r.at # 0 => First(more, r.at))
    BY <2>2, <2>4, FindFontFirst
  <2> QED BY <2>2, <2>4, <2>5 DEF FoundOK
<1> QED BY <1>1, <1>2

\* A further attempt spoils nothing.
LEMMA OrElseOK ==
  ASSUME NEW sel, Numbered(sel), NEW r, FoundOK(sel, r),
         NEW family \in Names \cup {None}, NEW extended \in BOOLEAN,
         NEW desc \in FontDesc, NEW code
  PROVE  FoundOK(sel, OrElse(r, family, extended, desc, code))
<1> DEFINE s == SelectFont(r.sel, NamesFor(family), extended, desc, code)
<1>1. CASE r.at # 0 \/ family = None
  BY <1>1 DEF OrElse
<1>2. CASE ~(r.at # 0 \/ family = None)
  <2>1. OrElse(r, family, extended, desc, code) = s
    BY <1>2 DEF OrElse
  <2>2. Numbered(r.sel) /\ Grown(sel, r.sel)
    BY DEF FoundOK
  <2>3. NamesFor(family) \in Seq(Names) /\ NamesFor(family)[1] \in Names
    BY <1>2, NamesForType
  <2>4. FoundOK(r.sel, s)
    BY <2>2, <2>3, SelectFontOK
  <2> HIDE DEF s
  <2>5. Numbered(s.sel) /\ Grown(r.sel, s.sel)
    BY <2>4 DEF FoundOK
  <2>6. Grown(sel, s.sel)
    BY <2>2, <2>5, GrownTwice
  <2> QED BY <2>1, <2>4, <2>6 DEF FoundOK
<1> QED BY <1>1, <1>2

\* ass_font_select finds the first entry of a file, and only adds fonts.
LEMMA FontSelectOK ==
  ASSUME NEW sel, Numbered(sel), NEW desc \in FontDesc,
         NEW code \in Symbols \cup {AnySymbol}
  PROVE  FoundOK(sel, FontSelect(sel, desc, code))
<1> DEFINE named   == OrElse(Found(sel, 0), desc.family, FALSE, desc, code)
           default == OrElse(named, DefaultFamily, FALSE, desc, code)
<1>1. FoundOK(sel, Found(sel, 0))
  BY SelectorFields DEF FoundOK, Found, Grown
<1>2. desc.family \in Names
  BY DEF FontDesc
<1>3. /\ DefaultFamily \in Names \cup {None}
      /\ Fallback[desc.family][code] \in Names \cup {None}
  BY <1>2, FontSelectAssumption
<1>4. FoundOK(sel, named)
  BY <1>1, <1>2, OrElseOK
<1> HIDE DEF named
<1>5. FoundOK(sel, default)
  BY <1>3, <1>4, OrElseOK
<1> HIDE DEF default
<1>6. FoundOK(sel, OrElse(default, Fallback[desc.family][code], TRUE, desc, code))
  BY <1>3, <1>5, OrElseOK
<1> QED BY <1>6 DEF FontSelect, default, named

-----------------------------------------------------------------------------
(* Faces                                                                   *)

\* What looking for a face leaves: a database that has perhaps grown, faces
\* that are sound, those that were there as they were but for their charmaps,
\* and at most one more, the one for the symbol.
AddedOK(sel, faces, a) ==
  /\ a = Added(a.sel, a.faces, a.face)
  /\ Numbered(a.sel) /\ Grown(sel, a.sel) /\ FacesOK(a.sel, a.faces)
  /\ a.face \in 0 .. Len(a.faces)
  /\ DOMAIN faces \subseteq DOMAIN a.faces
  /\ DOMAIN a.faces \subseteq DOMAIN faces \cup {a.face}
  /\ \A k \in DOMAIN faces :
       /\ a.faces[k].charmap = faces[k].charmap => a.faces[k] = faces[k]
       /\ k # a.face => a.faces[k] = faces[k]

\* The fields of what add_face returns.
LEMMA AddedFields ==
  ASSUME NEW sel, NEW faces, NEW face
  PROVE  LET a == Added(sel, faces, face)
         IN  /\ a.sel = sel /\ a.faces = faces /\ a.face = face
             /\ a = Added(a.sel, a.faces, a.face)
BY DEF Added

\* What faces are made of.
LEMMA FaceFields ==
  ASSUME NEW sel, NEW faces, FacesOK(sel, faces)
  PROVE  /\ faces \in Seq(Face) /\ Len(faces) \in Nat
         /\ DOMAIN faces = 1 .. Len(faces)
         /\ \A k \in DOMAIN faces :
              /\ faces[k] \in Face /\ faces[k].file \in Files
              /\ faces[k].uid \in Nat /\ faces[k].charmap \in Nat
<1>1. faces \in Seq(Face)
  BY DEF FacesOK
<1>2. /\ Len(faces) \in Nat /\ DOMAIN faces = 1 .. Len(faces)
      /\ \A k \in DOMAIN faces : faces[k] \in Face
  BY <1>1, LenProperties
<1> QED BY <1>1, <1>2 DEF Face

\* A face is opened with a charmap of its font, or with none.
LEMMA CharmapMagicType ==
  ASSUME NEW f \in Files
  PROVE  CharmapMagic(f) \in 0 .. Len(Font[f].charmaps)
<1> DEFINE cms == Font[f].charmaps
           Of(kind) == {c \in DOMAIN cms : cms[c].kind = kind}
           best == CharmapMagic(f)
<1>1. /\ cms \in Seq(Charmap) /\ Len(cms) \in Nat /\ DOMAIN cms = 1 .. Len(cms)
      /\ Font[f].charmap \in 0 .. Len(cms)
  BY FontFields
<1>2. \A kind : Of(kind) # {} => Least(Of(kind)) \in 1 .. Len(cms)
  <2> SUFFICES ASSUME NEW kind, Of(kind) # {} PROVE Least(Of(kind)) \in 1 .. Len(cms)
    OBVIOUS
  <2>1. Of(kind) \subseteq 1 .. Len(cms) /\ Of(kind) \subseteq Nat
    BY <1>1
  <2> HIDE DEF Of
  <2> QED BY <2>1, LeastIsLeast
<1>3. best = CASE Of("ucs4") # {} -> Least(Of("ucs4"))
               [] Of("ucs4") = {} /\ Of("bmp") # {} -> Least(Of("bmp"))
               [] Of("ucs4") = {} /\ Of("bmp") = {} /\ Of("ms") # {} -> Least(Of("ms"))
               [] OTHER -> IF Font[f].charmap = 0 /\ cms # <<>> THEN 1 ELSE Font[f].charmap
  BY DEF CharmapMagic
<1> HIDE DEF Of, best
<1>4. CASE Of("ucs4") # {}
  BY <1>1, <1>2, <1>3, <1>4 DEF best
<1>5. CASE Of("ucs4") = {} /\ Of("bmp") # {}
  BY <1>1, <1>2, <1>3, <1>5 DEF best
<1>6. CASE Of("ucs4") = {} /\ Of("bmp") = {} /\ Of("ms") # {}
  BY <1>1, <1>2, <1>3, <1>6 DEF best
<1>7. CASE Of("ucs4") = {} /\ Of("bmp") = {} /\ Of("ms") = {}
  <2>1. best = IF Font[f].charmap = 0 /\ cms # <<>> THEN 1 ELSE Font[f].charmap
    BY <1>3, <1>7
  <2>2. cms # <<>> => 1 \in 0 .. Len(cms)
    BY <1>1, EmptySeq
  <2> QED BY <1>1, <2>1, <2>2 DEF best
<1> QED BY <1>4, <1>5, <1>6, <1>7

\* Trying all charmaps leaves a face with one of its font's, or with none.
LEMMA TryingType ==
  ASSUME NEW face \in Face, face.charmap \in 0 .. Len(Font[face.file].charmaps),
         NEW symbol
  PROVE  Trying(face, symbol) \in 0 .. Len(Font[face.file].charmaps)
<1> DEFINE cms == Font[face.file].charmaps
           hit == {c \in DOMAIN cms : cms[c].glyph[symbol] # 0}
<1>1. face.file \in Files
  BY DEF Face
<1>2. Len(cms) \in Nat /\ DOMAIN cms = 1 .. Len(cms)
  BY <1>1, FontFields
<1>3. Trying(face, symbol) =
        IF GlyphIn(face, symbol) # 0 \/ cms = <<>> THEN face.charmap
        ELSE IF hit # {} THEN Least(hit) ELSE Len(cms)
  BY DEF Trying
<1>4. hit # {} => Least(hit) \in 1 .. Len(cms)
  <2>1. hit \subseteq 1 .. Len(cms) /\ hit \subseteq Nat
    BY <1>2
  <2> HIDE DEF hit
  <2> QED BY <2>1, LeastIsLeast
<1> HIDE DEF cms, hit
<1> QED BY <1>2, <1>3, <1>4 DEF cms

\* The glyph of a symbol is a number.
LEMMA GlyphInType ==
  ASSUME NEW face \in Face, face.charmap \in 0 .. Len(Font[face.file].charmaps),
         NEW symbol \in Symbols
  PROVE  GlyphIn(face, symbol) \in Nat
<1> DEFINE cms == Font[face.file].charmaps
<1>1. face.file \in Files /\ face.charmap \in Nat
  BY DEF Face
<1>2. cms \in Seq(Charmap) /\ Len(cms) \in Nat
  BY <1>1, FontFields
<1>3. CASE face.charmap = 0
  BY <1>3 DEF GlyphIn
<1>4. CASE face.charmap # 0
  <2>1. face.charmap \in 1 .. Len(cms)
    BY <1>1, <1>2, <1>4
  <2>2. cms[face.charmap] \in Charmap
    BY <1>2, <2>1, ElementOfSeq
  <2>3. cms[face.charmap].glyph[symbol] \in Nat
    BY <2>2 DEF Charmap
  <2> QED BY <1>4, <2>3 DEF GlyphIn
<1> QED BY <1>3, <1>4

\* A face chosen from the database is added if its uid is not there yet.
LEMMA AddChosenOK ==
  ASSUME NEW sel, Numbered(sel), NEW r, FoundOK(sel, r),
         NEW faces, FacesOK(sel, faces), ~Full(faces),
         NEW junk \in Nat, NEW fails \in BOOLEAN
  PROVE  LET a == AddSelected(r, faces, junk, fails)
         IN  AddedOK(sel, faces, a) /\ \A k \in DOMAIN faces : a.faces[k] = faces[k]
<1> DEFINE a == AddSelected(r, faces, junk, fails)
           entry == Chosen(r, junk)
           face == Opened(entry, r.at # 0)
           all == Append(faces, face)
           n == Len(faces)
           same == Same(faces, entry)
<1> SUFFICES AddedOK(sel, faces, a) /\ \A k \in DOMAIN faces : a.faces[k] = faces[k]
  OBVIOUS
<1>1. Numbered(r.sel) /\ Grown(sel, r.sel) /\ FacesOK(r.sel, faces)
  BY FacesStay DEF FoundOK
<1>2. /\ faces \in Seq(Face) /\ n \in Nat /\ DOMAIN faces = 1 .. n
      /\ \A k \in DOMAIN faces : faces[k].uid \in Nat
      /\ n <= MaxFaces /\ n # MaxFaces /\ MaxFaces \in Nat
  BY <1>1, FaceFields, FontsAssumption DEF FacesOK, Full
<1>3. /\ entry.file \in Files \cup {None} /\ entry.uid \in Nat
      /\ r.at # 0 => /\ First(r.sel, entry.uid)
                     /\ r.sel.font_infos[entry.uid].file = entry.file
  <2>1. CASE r.at # 0
    <3>1. entry = r.sel.font_infos[r.at] /\ First(r.sel, r.at)
      BY <2>1 DEF Chosen, FoundOK
    <3>2. entry.uid = r.at /\ r.at \in Nat /\ entry.file \in Files
      BY <1>1, <3>1, SelectorFields DEF First, FoundOK
    <3> QED BY <3>1, <3>2
  <2>2. CASE r.at = 0
    BY <2>2, FontSelectAssumption DEF Chosen
  <2> QED BY <2>1, <2>2
<1>4. a = IF entry.file = None THEN Added(r.sel, faces, 0)
          ELSE IF same # {} THEN Added(r.sel, faces, Least(same))
          ELSE IF fails THEN Added(r.sel, faces, 0)
          ELSE Added(r.sel, all, n + 1)
  BY DEF AddSelected, AddChosen
<1>5. /\ same \subseteq 1 .. n /\ same \subseteq Nat
      /\ same = {} => \A k \in DOMAIN faces : faces[k].uid # entry.uid
  <2>1. same = {k \in DOMAIN faces : faces[k].uid = entry.uid}
    BY DEF Same
  <2> HIDE DEF entry, n, same
  <2> QED BY <1>2, <2>1
<1>6. /\ face.uid = entry.uid /\ face.file = entry.file
      /\ face.charmap = CharmapMagic(entry.file) /\ face.listed = (r.at # 0)
      /\ face \in [uid : {entry.uid}, file : {entry.file},
                   charmap : {CharmapMagic(entry.file)}, listed : {r.at # 0}]
  BY DEF Opened
<1> HIDE DEF a, entry, face, all, n, same
<1>7. ASSUME NEW k \in 0 .. n, a = Added(r.sel, faces, k)
      PROVE  AddedOK(sel, faces, a) /\ \A j \in DOMAIN faces : a.faces[j] = faces[j]
  <2>1. /\ a.sel = r.sel /\ a.faces = faces /\ a.face = k
        /\ a = Added(a.sel, a.faces, a.face)
    BY <1>7, AddedFields
  <2> QED BY <1>1, <2>1 DEF AddedOK, n
<1>8. 0 \in 0 .. n /\ (same # {} => Least(same) \in 0 .. n)
  <2>1. same # {} => Least(same) \in same
    BY <1>5, LeastIsLeast
  <2> QED BY <1>2, <1>5, <2>1
<1>9. CASE entry.file = None
  BY <1>4, <1>7, <1>8, <1>9
<1>10. CASE entry.file # None /\ same # {}
  BY <1>4, <1>7, <1>8, <1>10
<1>11. CASE entry.file # None /\ same = {} /\ fails
  BY <1>4, <1>7, <1>8, <1>11
<1>12. CASE entry.file # None /\ same = {} /\ ~fails
  <2>1. a = Added(r.sel, all, n + 1)
    BY <1>4, <1>12
  <2>2. /\ a.sel = r.sel /\ a.faces = all /\ a.face = n + 1
        /\ a = Added(a.sel, a.faces, a.face)
    BY <2>1, AddedFields
  <2>4. CharmapMagic(entry.file) \in 0 .. Len(Font[entry.file].charmaps) /\ entry.file \in Files
    BY <1>3, <1>12, CharmapMagicType
  <2>5. face \in Face
    <3>1. CharmapMagic(entry.file) \in Nat
      BY <2>4, FontFields
    <3> QED BY <1>3, <1>6, <2>4, <3>1 DEF Face
  <2>6. FaceOK(r.sel, face)
    BY <1>3, <1>6, <2>4 DEF FaceOK
  <2>7. /\ all \in Seq(Face) /\ Len(all) = n + 1
        /\ \A k \in 1 .. n : all[k] = faces[k]
        /\ all[n + 1] = face /\ DOMAIN all = 1 .. n + 1
    <3>1. /\ all \in Seq(Face) /\ Len(all) = Len(faces) + 1
          /\ \A k \in 1 .. Len(faces) : all[k] = faces[k]
          /\ all[Len(faces) + 1] = face
      BY <1>2, <2>5, AppendProperties DEF all
    <3> QED BY <3>1, LenProperties DEF n
  <2>8. \A k \in 1 .. n + 1 : k = n + 1 \/ k \in 1 .. n
    BY <1>2
  <2>9. \A k \in 1 .. n : faces[k].uid # face.uid
    BY <1>2, <1>5, <1>6, <1>12
  <2>10. FacesOK(r.sel, all)
    <3>1. Len(all) <= MaxFaces
      BY <1>2, <2>7
    <3>2. \A k \in DOMAIN all : FaceOK(r.sel, all[k])
      BY <1>1, <1>2, <2>6, <2>7, <2>8 DEF FacesOK
    <3>3. ASSUME NEW j \in DOMAIN all, NEW k \in DOMAIN all,
                 all[j].listed, all[k].listed, all[j].uid = all[k].uid
          PROVE  j = k
      BY <1>1, <1>2, <2>7, <2>8, <2>9, <3>3 DEF FacesOK
    <3> QED BY <2>7, <3>1, <3>2, <3>3 DEF FacesOK
  <2>11. 1 .. n \subseteq 1 .. n + 1 /\ 1 .. n + 1 \subseteq (1 .. n) \cup {n + 1}
         /\ n + 1 \in 0 .. n + 1
    BY <1>2
  <2> QED BY <1>1, <1>2, <2>2, <2>7, <2>10, <2>11 DEF AddedOK
<1> QED BY <1>9, <1>10, <1>11, <1>12

\* add_face finds a face, adds one, or finds none.
LEMMA AddFaceOK ==
  ASSUME NEW sel, Numbered(sel), NEW faces, FacesOK(sel, faces),
         NEW desc \in FontDesc, NEW code \in Symbols \cup {AnySymbol},
         NEW junk \in Nat, NEW fails \in BOOLEAN
  PROVE  LET a == AddFace(sel, faces, desc, code, junk, fails)
         IN  AddedOK(sel, faces, a) /\ \A k \in DOMAIN faces : a.faces[k] = faces[k]
<1> DEFINE a == AddFace(sel, faces, desc, code, junk, fails)
<1> SUFFICES AddedOK(sel, faces, a) /\ \A k \in DOMAIN faces : a.faces[k] = faces[k]
  OBVIOUS
<1>1. CASE Full(faces)
  <2>1. a = Added(sel, faces, 0)
    BY <1>1 DEF AddFace
  <2>2. a.sel = sel /\ a.faces = faces /\ a.face = 0 /\ a = Added(a.sel, a.faces, a.face)
    BY <2>1, AddedFields
  <2> HIDE DEF a
  <2>3. Grown(sel, sel) /\ 0 \in 0 .. Len(faces)
    BY SelectorFields, FaceFields DEF Grown
  <2> QED BY <2>2, <2>3 DEF AddedOK
<1>2. CASE ~Full(faces)
  <2> DEFINE r == FontSelect(sel, desc, code)
  <2>1. FoundOK(sel, r)
    BY FontSelectOK
  <2>2. a = AddSelected(r, faces, junk, fails)
    BY <1>2 DEF AddFace
  <2> HIDE DEF a, r
  <2> QED BY <1>2, <2>1, <2>2, AddChosenOK
<1> QED BY <1>1, <1>2

\* The new face may be left with another charmap.
LEMMA TriedOK ==
  ASSUME NEW sel, NEW faces, NEW a, AddedOK(sel, faces, a),
         \A k \in DOMAIN faces : a.faces[k] = faces[k],
         NEW symbol \in Symbols
  PROVE  AddedOK(sel, faces, Tried(a, symbol))
<1> DEFINE t == Tried(a, symbol)
           n == a.face
           old == a.faces[n]
           new == [old EXCEPT !.charmap = Trying(old, symbol)]
           all == [a.faces EXCEPT ![n] = new]
<1> SUFFICES AddedOK(sel, faces, t)
  OBVIOUS
<1>1. CASE a.face = 0
  BY <1>1 DEF Tried
<1>2. CASE a.face # 0
  <2>1. t = Added(a.sel, all, n)
    <3>1. t = [a EXCEPT !.faces = all]
      BY <1>2 DEF Tried
    <3>2. a = [sel |-> a.sel, faces |-> a.faces, face |-> n]
      BY DEF AddedOK, Added
    <3> HIDE DEF all, t
    <3>3. [a EXCEPT !.faces = all] = [sel |-> a.sel, faces |-> all, face |-> n]
      BY <3>2
    <3> QED BY <3>1, <3>3 DEF Added
  <2>2. t.sel = a.sel /\ t.faces = all /\ t.face = n /\ t = Added(t.sel, t.faces, t.face)
    BY <2>1, AddedFields
  <2> HIDE DEF t
  <2>3. /\ Numbered(a.sel) /\ Grown(sel, a.sel) /\ FacesOK(a.sel, a.faces)
        /\ n \in 0 .. Len(a.faces)
    BY DEF AddedOK
  <2>4. /\ a.faces \in Seq(Face) /\ Len(a.faces) \in Nat
        /\ DOMAIN a.faces = 1 .. Len(a.faces) /\ n \in 1 .. Len(a.faces)
    BY <1>2, <2>3, FaceFields
  <2>5. old \in Face /\ FaceOK(a.sel, old) /\ old.file \in Files
    BY <2>3, <2>4, FaceFields DEF FacesOK
  <2>6. Trying(old, symbol) \in 0 .. Len(Font[old.file].charmaps)
    BY <2>5, TryingType DEF FaceOK
  <2>7. Trying(old, symbol) \in Nat
    BY <2>5, <2>6, FontFields
  <2> HIDE DEF old
  <2>8. /\ new \in Face /\ new.charmap = Trying(old, symbol)
        /\ new.uid = old.uid /\ new.file = old.file /\ new.listed = old.listed
        /\ new.charmap = old.charmap => new = old
    BY <2>5, <2>7 DEF Face
  <2>9. FaceOK(a.sel, new)
    BY <2>5, <2>6, <2>8 DEF FaceOK
  <2> HIDE DEF new
  <2>10. /\ all \in Seq(Face) /\ Len(all) = Len(a.faces)
         /\ \A k \in 1 .. Len(a.faces) : all[k] = IF k = n THEN new ELSE a.faces[k]
    BY <2>4, <2>8, ExceptSeq
  <2> HIDE DEF all, n
  <2>11. DOMAIN all = DOMAIN a.faces
    BY <2>4, <2>10, LenProperties
  <2>12. FacesOK(a.sel, all)
    <3>1. Len(all) <= MaxFaces
      BY <2>3, <2>10 DEF FacesOK
    <3>2. \A k \in DOMAIN all : FaceOK(a.sel, all[k])
      BY <2>3, <2>4, <2>9, <2>10, <2>11 DEF FacesOK
    <3>3. \A k \in DOMAIN all : /\ all[k].listed = a.faces[k].listed
                                /\ all[k].uid = a.faces[k].uid
      BY <2>4, <2>8, <2>10, <2>11 DEF old
    <3> QED BY <2>3, <2>10, <2>11, <3>1, <3>2, <3>3 DEF FacesOK
  <2>13. \A k \in DOMAIN faces :
           /\ k \in DOMAIN all
           /\ all[k].charmap = faces[k].charmap => all[k] = faces[k]
           /\ k # n => all[k] = faces[k]
    <3> SUFFICES ASSUME NEW k \in DOMAIN faces
                 PROVE  /\ k \in DOMAIN all
                        /\ all[k].charmap = faces[k].charmap => all[k] = faces[k]
                        /\ k # n => all[k] = faces[k]
      OBVIOUS
    <3>1. k \in DOMAIN a.faces /\ a.faces[k] = faces[k]
      BY DEF AddedOK
    <3>2. k \in DOMAIN all /\ all[k] = IF k = n THEN new ELSE a.faces[k]
      BY <2>4, <2>10, <2>11, <3>1
    <3> QED BY <2>8, <3>1, <3>2 DEF old
  <2>14. DOMAIN a.faces \subseteq DOMAIN faces \cup {n}
    BY DEF AddedOK, n
  <2>15. n \in 0 .. Len(all)
    BY <2>3, <2>10 DEF n
  <2> QED BY <2>2, <2>3, <2>11, <2>12, <2>13, <2>14, <2>15 DEF AddedOK
<1> QED BY <1>1, <1>2

\* The faces before the one returned do not have the symbol; that one has it,
\* if any has.
FirstHaving(a, symbol) ==
  /\ \A k \in 1 .. a.face - 1 : GlyphIn(a.faces[k], symbol) = 0
  /\ a.face # 0 /\ Having(a.faces, symbol) # {} =>
       GlyphIn(a.faces[a.face], symbol) # 0

\* ass_font_get_index: the first face that has the symbol, or one that is
\* looked for.
LEMMA GetIndexOK ==
  ASSUME NEW sel, Numbered(sel), NEW faces, FacesOK(sel, faces),
         NEW desc \in FontDesc, NEW symbol \in Symbols,
         NEW junk \in Nat, NEW fails \in BOOLEAN,
         NEW a, a = GetIndex(sel, faces, desc, symbol, junk, fails)
  PROVE  AddedOK(sel, faces, a) /\ FirstHaving(a, symbol)
<1> DEFINE have == Having(faces, symbol)
<1>1. Len(faces) \in Nat /\ DOMAIN faces = 1 .. Len(faces)
  BY FaceFields
<1>2. CASE have # {}
  <2>1. a = Added(sel, faces, Least(have))
    BY <1>2 DEF GetIndex, Choose
  <2>2. a.sel = sel /\ a.faces = faces /\ a.face = Least(have)
        /\ a = Added(a.sel, a.faces, a.face)
    BY <2>1, AddedFields
  <2>3. \A k \in DOMAIN faces : k \in have <=> GlyphIn(faces[k], symbol) # 0
    BY DEF Having
  <2>4. have \subseteq DOMAIN faces /\ have \subseteq Nat
    BY <1>1 DEF Having
  <2> HIDE DEF have
  <2>5. Least(have) \in have /\ \A k \in have : Least(have) <= k
    BY <1>2, <2>4, LeastIsLeast
  <2>6. Least(have) \in 1 .. Len(faces)
    BY <1>1, <2>4, <2>5
  <2>7. \A k \in 1 .. Least(have) - 1 : k \in DOMAIN faces /\ ~(Least(have) <= k)
    BY <1>1, <2>6
  <2>8. Grown(sel, sel)
    BY SelectorFields DEF Grown
  <2> QED BY <1>1, <2>2, <2>3, <2>5, <2>6, <2>7, <2>8 DEF AddedOK, FirstHaving
<1>3. CASE have = {}
  <2> DEFINE new == AddFace(sel, faces, desc, symbol, junk, fails)
  <2>1. a = Tried(new, symbol)
    BY <1>3 DEF GetIndex
  <2>2. AddedOK(sel, faces, new) /\ \A k \in DOMAIN faces : new.faces[k] = faces[k]
    BY AddFaceOK
  <2> HIDE DEF new
  <2>3. AddedOK(sel, faces, Tried(new, symbol))
    BY <2>2, TriedOK
  <2>4. AddedOK(sel, faces, a)
    BY <2>1, <2>3
  <2>5. \A k \in DOMAIN faces : GlyphIn(faces[k], symbol) = 0
    BY <1>3 DEF Having
  <2>6. \A k \in DOMAIN a.faces : k # a.face => GlyphIn(a.faces[k], symbol) = 0
    BY <2>4, <2>5 DEF AddedOK
  <2>7. FacesOK(a.sel, a.faces) /\ a.face \in 0 .. Len(a.faces)
    BY <2>4 DEF AddedOK
  <2>8. Len(a.faces) \in Nat /\ DOMAIN a.faces = 1 .. Len(a.faces)
    BY <2>7, FaceFields
  <2>9. \A k \in 1 .. a.face - 1 : k \in DOMAIN a.faces /\ k # a.face
    BY <2>7, <2>8
  <2>10. Having(a.faces, symbol) # {} => GlyphIn(a.faces[a.face], symbol) # 0
    BY <2>6 DEF Having
  <2> QED BY <2>4, <2>6, <2>9, <2>10 DEF FirstHaving
<1> QED BY <1>2, <1>3

-----------------------------------------------------------------------------
(* The invariant                                                           *)

\* The beginning of a sequence, or any part of it.
LEMMA PartOfSeq ==
  ASSUME NEW S, NEW s \in Seq(S), NEW m \in Nat \ {0}, NEW n \in 0 .. Len(s)
  PROVE  SubSeq(s, m, n) \in Seq(S)
<1>1. Len(s) \in Nat /\ n \in Int /\ m \in Int
  BY LenProperties
<1>2. \A i \in m .. n : s[i] \in S
  <2> SUFFICES ASSUME NEW i \in m .. n PROVE s[i] \in S
    OBVIOUS
  <2>1. i \in 1 .. Len(s)
    BY <1>1
  <2> QED BY <2>1, ElementOfSeq
<1> QED BY <1>1, <1>2, SubSeqProperties

\* The database that a renderer starts with.
LEMMA SelectedNumbered ==
  ASSUME NEW n \in 0 .. Len(Attachments)
  PROVE  Numbered(Selected(n))
<1> DEFINE first == AddFonts(Empty, SubSeq(Attachments, 1, n))
<1>1. SubSeq(Attachments, 1, n) \in Seq(Files) /\ Scanned \in Seq(Files)
  BY FontsAssumption, PartOfSeq
<1>2. Numbered(first)
  BY <1>1, EmptyNumbered, AddFontsGrown
<1> HIDE DEF first
<1>3. Numbered(AddFonts(first, Scanned))
  BY <1>1, <1>2, AddFontsGrown
<1> QED BY <1>3 DEF Selected, first

\* A font without faces is sound.
LEMMA NoFacesOK ==
  ASSUME NEW sel
  PROVE  <<>> \in Seq(Face) /\ FacesOK(sel, <<>>)
<1>1. <<>> \in Seq(Face) /\ Len(<<>>) = 0
  BY EmptySeq
<1>2. DOMAIN <<>> = {}
  OBVIOUS
<1>3. 0 <= MaxFaces
  BY FontsAssumption
<1> HIDE DEF FaceOK
<1> QED BY <1>1, <1>2, <1>3 DEF FacesOK

\* The invariant holds of a renderer that has just been made.
LEMMA InitIInv == Init => IInv
<1> SUFFICES ASSUME Init PROVE IInv
  OBVIOUS
<1>1. Numbered(selector)
  BY SelectedNumbered DEF Init
<1>2. \A d \in Descs : fonts[d] = <<>> /\ FacesOK(selector, fonts[d])
  BY NoFacesOK DEF Init
<1>3. TypeOK
  <2>1. selector \in Selector
    BY <1>1 DEF Numbered
  <2>2. num_emfonts \in 0 .. num_fontdata /\ num_fontdata \in 0 .. Len(Attachments)
    BY FontsAssumption DEF Init
  <2>3. fonts \in [Descs -> Seq(Face)] /\ todo \in [Events -> Seq(Request)]
    BY NoFacesOK, EmptySeq DEF Init
  <2>4. \A d \in Descs : Len(fonts[d]) <= MaxFaces
    BY <1>2 DEF FacesOK
  <2> QED BY <2>1, <2>2, <2>3, <2>4 DEF Init, TypeOK
<1>4. drawn = {}
  BY DEF Init
<1> QED BY <1>1, <1>2, <1>3, <1>4 DEF IInv, Sound

\* A step that leaves the fonts alone but lets the database grow.
LEMMA GrowthSound ==
  ASSUME Sound, Numbered(selector'), Grown(selector, selector'),
         UNCHANGED <<fonts, drawn, switched>>
  PROVE  Sound'
<1>1. Numbered(selector) /\ \A d \in Descs : FacesOK(selector, fonts[d])
  BY DEF Sound
<1>2. \A d \in Descs : FacesOK(selector', fonts[d])
  BY <1>1, FacesStay
<1> QED BY <1>2 DEF Sound

\* A step that opens or looks up a face of one font.
LEMMA AdditionSound ==
  ASSUME IInv, NEW d \in Descs, NEW a, AddedOK(selector, fonts[d], a),
         selector' = a.sel, fonts' = [fonts EXCEPT ![d] = a.faces]
  PROVE  /\ selector' \in Selector /\ Numbered(selector')
         /\ fonts' \in [Descs -> Seq(Face)]
         /\ \A x \in Descs : Len(fonts'[x]) <= MaxFaces /\ FacesOK(selector', fonts'[x])
<1>1. /\ Numbered(a.sel) /\ Grown(selector, a.sel) /\ FacesOK(a.sel, a.faces)
      /\ a.faces \in Seq(Face)
  BY DEF AddedOK, FacesOK
<1>2. /\ fonts \in [Descs -> Seq(Face)] /\ Numbered(selector)
      /\ \A x \in Descs : FacesOK(selector, fonts[x])
  BY DEF IInv, TypeOK, Sound
<1>3. \A x \in Descs : FacesOK(selector', fonts[x])
  BY <1>1, <1>2, FacesStay
<1>4. \A x \in Descs : fonts'[x] = IF x = d THEN a.faces ELSE fonts[x]
  BY <1>2
<1>5. fonts' \in [Descs -> Seq(Face)]
  BY <1>1, <1>2
<1>6. \A x \in Descs : FacesOK(selector', fonts'[x])
  BY <1>1, <1>3, <1>4
<1> QED BY <1>1, <1>5, <1>6 DEF FacesOK, Numbered

\* ass_start_frame: the database grows by the fonts attached since.
LEMMA StartFrameIInv == ASSUME IInv, StartFrame PROVE IInv'
<1> DEFINE files == SubSeq(Attachments, num_emfonts + 1, num_fontdata)
<1>1. files \in Seq(Files)
  <2>1. /\ num_emfonts + 1 \in Nat \ {0} /\ num_fontdata \in 0 .. Len(Attachments)
        /\ Attachments \in Seq(Files)
    BY FontsAssumption, LenProperties DEF IInv, TypeOK
  <2> QED BY <2>1, PartOfSeq
<1>2. Numbered(selector) /\ selector' = AddFonts(selector, files)
  BY DEF IInv, Sound, StartFrame
<1> HIDE DEF files
<1>3. Numbered(selector') /\ Grown(selector, selector')
  BY <1>1, <1>2, AddFontsGrown
<1>4. Sound'
  BY <1>3, GrowthSound DEF IInv, StartFrame
<1>5. todo' \in [Events -> Seq(Request)]
  <2>1. PICK text \in [Events -> UNION {Texts[e] : e \in Events}] :
          todo' = text /\ \A e \in Events : text[e] \in Texts[e]
    BY DEF StartFrame
  <2>2. \A e \in Events : Texts[e] \subseteq Seq(Request)
    BY FontsAssumption
  <2> QED BY <2>1, <2>2
<1>6. TypeOK'
  <2>1. num_emfonts' \in 0 .. num_fontdata' /\ frames' \in Nat
    BY DEF IInv, TypeOK, StartFrame
  <2> QED BY <1>3, <1>5, <2>1 DEF IInv, TypeOK, StartFrame, Numbered
<1> QED BY <1>4, <1>6 DEF IInv

\* ass_add_font: nothing but the count of attachments changes.
LEMMA AddFontIInv == ASSUME IInv, AddFont PROVE IInv'
<1>1. Len(Attachments) \in Nat
  BY FontsAssumption, LenProperties
<1>2. num_fontdata' \in 0 .. Len(Attachments) /\ num_emfonts' \in 0 .. num_fontdata'
  BY <1>1 DEF IInv, TypeOK, AddFont
<1>3. TypeOK'
  BY <1>2 DEF IInv, TypeOK, AddFont
<1>4. Grown(selector, selector') /\ Numbered(selector')
  BY SelectorFields DEF IInv, Sound, AddFont, Grown
<1> QED BY <1>3, <1>4, GrowthSound DEF IInv, AddFont

\* ass_set_fonts: everything starts anew.
LEMMA SetFontsIInv == ASSUME IInv, SetFonts PROVE IInv'
<1>1. num_fontdata \in 0 .. Len(Attachments)
  BY DEF IInv, TypeOK
<1>2. Numbered(selector')
  BY <1>1, SelectedNumbered DEF SetFonts
<1>3. \A d \in Descs : fonts'[d] = <<>> /\ FacesOK(selector', fonts'[d])
  BY NoFacesOK DEF SetFonts
<1>4. TypeOK'
  <2>1. selector' \in Selector
    BY <1>2 DEF Numbered
  <2>2. num_emfonts' \in 0 .. num_fontdata' /\ num_fontdata' \in 0 .. Len(Attachments)
    BY <1>1, FontsAssumption, LenProperties DEF SetFonts
  <2>3. fonts' \in [Descs -> Seq(Face)]
    BY NoFacesOK DEF SetFonts
  <2>4. \A d \in Descs : Len(fonts'[d]) <= MaxFaces
    BY <1>3 DEF FacesOK
  <2> QED BY <2>1, <2>2, <2>3, <2>4 DEF IInv, TypeOK, SetFonts
<1>5. drawn' = {}
  BY DEF SetFonts
<1> QED BY <1>2, <1>3, <1>4, <1>5 DEF IInv, Sound

\* The next request of an event.
LEMMA HeadRequest ==
  ASSUME IInv, NEW e \in Events, todo[e] # <<>>
  PROVE  /\ Head(todo[e]).desc \in Descs /\ Head(todo[e]).desc \in FontDesc
         /\ Head(todo[e]).symbol \in Symbols \cup {AnySymbol}
         /\ Tail(todo[e]) \in Seq(Request)
<1>1. todo[e] \in Seq(Request)
  BY DEF IInv, TypeOK
<1>2. Head(todo[e]) \in Request /\ Tail(todo[e]) \in Seq(Request)
  BY <1>1, HeadTailProperties
<1> QED BY <1>2, FontsAssumption DEF Request

\* ass_font_new.
LEMMA OpenIInv == ASSUME IInv, NEW e \in Events, Open(e) PROVE IInv'
<1> DEFINE d == Head(todo[e]).desc
<1>1. /\ d \in Descs /\ d \in FontDesc /\ Tail(todo[e]) \in Seq(Request)
      /\ <<>> \in Seq(Request)
  BY HeadRequest, EmptySeq DEF Open
<1>2. Numbered(selector)
  BY DEF IInv, Sound
<1>3. todo' \in [Events -> Seq(Request)]
  <2>1. todo \in [Events -> Seq(Request)]
    BY DEF IInv, TypeOK
  <2>2. todo' = [todo EXCEPT ![e] = IF d \in failed' THEN <<>> ELSE Tail(todo[e])]
    BY <2>1 DEF Open
  <2> HIDE DEF d
  <2> QED BY <1>1, <2>1, <2>2
<1>4. CASE UNCHANGED <<selector, fonts, failed>>
  <2>1. TypeOK'
    BY <1>3, <1>4 DEF IInv, TypeOK, Open
  <2>2. Grown(selector, selector') /\ Numbered(selector')
    BY <1>2, <1>4, SelectorFields DEF Grown
  <2> QED BY <1>4, <2>1, <2>2, GrowthSound DEF IInv, Open
<1>5. CASE /\ fonts[d] = <<>>
           /\ \E junk \in Junk, fails \in {FALSE, MayFail} :
              \E a \in {AddFace(selector, <<>>, d, AnySymbol, junk, fails)} :
                /\ selector' = a.sel /\ fonts' = [fonts EXCEPT ![d] = a.faces]
                /\ failed' = IF a.face = 0 THEN failed \cup {d} ELSE failed
  <2>1. PICK junk \in Junk, fails \in {FALSE, MayFail} :
          \E a \in {AddFace(selector, <<>>, d, AnySymbol, junk, fails)} :
            /\ selector' = a.sel /\ fonts' = [fonts EXCEPT ![d] = a.faces]
            /\ failed' = IF a.face = 0 THEN failed \cup {d} ELSE failed
    BY <1>5
  <2> DEFINE a == AddFace(selector, <<>>, d, AnySymbol, junk, fails)
  <2>2. junk \in Nat /\ fails \in BOOLEAN
    BY FontsAssumption
  <2>3. /\ selector' = a.sel /\ fonts' = [fonts EXCEPT ![d] = a.faces]
        /\ failed' \subseteq Descs
    BY <1>1, <2>1 DEF IInv, TypeOK
  <2>4. FacesOK(selector, <<>>)
    BY NoFacesOK
  <2>5. AddedOK(selector, fonts[d], a)
    BY <1>1, <1>2, <1>5, <2>2, <2>4, AddFaceOK
  <2> HIDE DEF a, d
  <2>6. /\ selector' \in Selector /\ Numbered(selector')
        /\ fonts' \in [Descs -> Seq(Face)]
        /\ \A x \in Descs : Len(fonts'[x]) <= MaxFaces /\ FacesOK(selector', fonts'[x])
    BY <1>1, <2>3, <2>5, AdditionSound
  <2>7. TypeOK'
    BY <1>3, <2>3, <2>6 DEF IInv, TypeOK, Open
  <2>8. ASSUME NEW g \in drawn PROVE StillDrawn(g, fonts'[g.desc], switched)
    <3>1. StillDrawn(g, fonts[g.desc], switched) /\ g.desc \in Descs
      BY DEF IInv, Sound, TypeOK, Glyph
    <3>2. g.desc # d
      BY <1>5, <3>1 DEF StillDrawn
    <3>3. fonts'[g.desc] = fonts[g.desc]
      BY <2>3, <3>1, <3>2 DEF IInv, TypeOK
    <3> QED BY <3>1, <3>3
  <2>9. drawn' = drawn /\ switched' = switched
    BY DEF Open
  <2> QED BY <2>6, <2>7, <2>8, <2>9 DEF IInv, Sound
<1> QED BY <1>4, <1>5 DEF Open

\* What was drawn before is still drawn, unless a charmap has changed.
LEMMA OldStillDrawn ==
  ASSUME NEW g, NEW faces, NEW changed, NEW sel, NEW a, g.face \in Nat,
         FacesOK(sel, faces), AddedOK(sel, faces, a), StillDrawn(g, faces, changed),
         NEW now,
         now = changed \cup {<<g.desc, k>> : k \in {j \in DOMAIN faces :
                                    faces[j].charmap # a.faces[j].charmap}}
  PROVE  StillDrawn(g, a.faces, now)
<1>1. Len(faces) \in Nat /\ DOMAIN faces = 1 .. Len(faces)
  BY FaceFields
<1>2. g.face \in DOMAIN faces /\ g.face \in DOMAIN a.faces
  BY DEF StillDrawn, AddedOK
<1>3. ASSUME \A k \in 1 .. g.face : <<g.desc, k>> \notin now
      PROVE  /\ a.faces[g.face].file = g.file
             /\ GlyphIn(a.faces[g.face], g.symbol) = g.glyph /\ g.glyph # 0
             /\ \A k \in 1 .. g.face - 1 : GlyphIn(a.faces[k], g.symbol) = 0
  <2>1. \A k \in 1 .. g.face : <<g.desc, k>> \notin changed /\ k \in DOMAIN faces
    BY <1>1, <1>2, <1>3
  <2>2. \A k \in 1 .. g.face : a.faces[k].charmap = faces[k].charmap
    BY <1>3, <2>1
  <2>3. \A k \in 1 .. g.face : a.faces[k] = faces[k]
    BY <2>1, <2>2 DEF AddedOK
  <2>4. g.face \in 1 .. g.face /\ \A k \in 1 .. g.face - 1 : k \in 1 .. g.face
    BY <1>1, <1>2
  <2> QED BY <2>1, <2>3, <2>4 DEF StillDrawn
<1> QED BY <1>2, <1>3 DEF StillDrawn

\* ass_font_get_index for an event: what it may draw is the first face that has
\* the symbol, and a charmap that changes is recorded.
LEMMA LookupIInv == ASSUME IInv, NEW e \in Events, Lookup(e) PROVE IInv'
<1> DEFINE d == Head(todo[e]).desc
           s == Head(todo[e]).symbol
<1>1. d \in Descs /\ d \in FontDesc /\ s \in Symbols /\ Tail(todo[e]) \in Seq(Request)
  BY HeadRequest DEF Lookup
<1>2. PICK junk \in Junk, fails \in {FALSE, MayFail} :
       \E a \in {GetIndex(selector, fonts[d], d, s, junk, fails)} :
         /\ selector' = a.sel /\ fonts' = [fonts EXCEPT ![d] = a.faces]
         /\ drawn' = IF a.face = 0 \/ Having(a.faces, s) = {} THEN drawn
              ELSE drawn \cup {[desc |-> d, symbol |-> s, face |-> a.face,
                                file |-> a.faces[a.face].file,
                                glyph |-> GlyphIn(a.faces[a.face], s)]}
         /\ switched' = switched \cup
              {<<d, k>> : k \in {j \in DOMAIN fonts[d] :
                                   fonts[d][j].charmap # a.faces[j].charmap}}
  BY DEF Lookup
<1> DEFINE a == GetIndex(selector, fonts[d], d, s, junk, fails)
<1> DEFINE g == [desc |-> d, symbol |-> s, face |-> a.face,
                 file |-> a.faces[a.face].file,
                 glyph |-> GlyphIn(a.faces[a.face], s)]
           moved == {j \in DOMAIN fonts[d] : fonts[d][j].charmap # a.faces[j].charmap}
<1>3. /\ selector' = a.sel /\ fonts' = [fonts EXCEPT ![d] = a.faces]
      /\ drawn' = IF a.face = 0 \/ Having(a.faces, s) = {} THEN drawn ELSE drawn \cup {g}
      /\ switched' = switched \cup {<<d, k>> : k \in moved}
  BY <1>2
<1>4. todo' \in [Events -> Seq(Request)]
  BY <1>1 DEF IInv, TypeOK, Lookup
<1>5. /\ Numbered(selector) /\ FacesOK(selector, fonts[d])
      /\ junk \in Nat /\ fails \in BOOLEAN
  BY <1>1, FontsAssumption DEF IInv, Sound
<1>6. /\ g.desc = d /\ g.symbol = s /\ g.face = a.face /\ g.file = a.faces[a.face].file
      /\ g.glyph = GlyphIn(a.faces[a.face], s)
      /\ g \in [desc : {d}, symbol : {s}, face : {a.face}, file : {a.faces[a.face].file},
                glyph : {GlyphIn(a.faces[a.face], s)}]
  OBVIOUS
<1> HIDE DEF d, s, g
<1>7. AddedOK(selector, fonts[d], a) /\ FirstHaving(a, s)
  <2>1. a = GetIndex(selector, fonts[d], d, s, junk, fails)
    OBVIOUS
  <2> HIDE DEF a
  <2> QED BY <1>1, <1>5, <2>1, GetIndexOK
<1> HIDE DEF a
<1>8. /\ selector' \in Selector /\ Numbered(selector')
      /\ fonts' \in [Descs -> Seq(Face)]
      /\ \A x \in Descs : Len(fonts'[x]) <= MaxFaces /\ FacesOK(selector', fonts'[x])
  BY <1>1, <1>3, <1>7, AdditionSound
<1>9. \A x \in Descs : fonts'[x] = IF x = d THEN a.faces ELSE fonts[x]
  BY <1>3 DEF IInv, TypeOK
<1>10. /\ FacesOK(a.sel, a.faces) /\ a.face \in 0 .. Len(a.faces)
  BY <1>7 DEF AddedOK
<1>11. /\ Len(a.faces) \in Nat /\ DOMAIN a.faces = 1 .. Len(a.faces)
       /\ Len(fonts[d]) \in Nat /\ DOMAIN fonts[d] = 1 .. Len(fonts[d])
  BY <1>5, <1>10, FaceFields
<1>12. ASSUME a.face # 0, Having(a.faces, s) # {}
       PROVE  g \in Glyph /\ StillDrawn(g, a.faces, switched')
  <2>1. a.face \in DOMAIN a.faces
    BY <1>10, <1>11, <1>12
  <2>2. /\ a.faces[a.face] \in Face /\ a.faces[a.face].file \in Files
        /\ FaceOK(a.sel, a.faces[a.face])
    BY <1>10, <2>1, FaceFields DEF FacesOK
  <2>3. GlyphIn(a.faces[a.face], s) \in Nat
    BY <1>1, <2>2, GlyphInType DEF FaceOK
  <2>4. g \in Glyph
    BY <1>1, <1>6, <1>10, <1>11, <2>2, <2>3 DEF Glyph
  <2>5. StillDrawn(g, a.faces, switched')
    BY <1>6, <1>7, <1>12, <2>1 DEF StillDrawn, FirstHaving
  <2> QED BY <2>4, <2>5
<1>13. drawn' \subseteq Glyph
  BY <1>3, <1>12 DEF IInv, TypeOK
<1>14. switched' \subseteq Descs \X Nat
  BY <1>1, <1>3, <1>11 DEF IInv, TypeOK
<1>15. TypeOK'
  BY <1>4, <1>8, <1>13, <1>14 DEF IInv, TypeOK, Lookup
<1>16. ASSUME NEW h \in drawn PROVE StillDrawn(h, fonts'[h.desc], switched')
  <2>1. StillDrawn(h, fonts[h.desc], switched) /\ h.desc \in Descs /\ h.face \in Nat
    BY DEF IInv, Sound, TypeOK, Glyph
  <2>2. CASE h.desc = d
    <3>1. switched' = switched \cup {<<h.desc, k>> : k \in moved}
      BY <1>3, <2>2
    <3>2. StillDrawn(h, a.faces, switched')
      BY <1>5, <1>7, <2>1, <2>2, <3>1, OldStillDrawn
    <3> QED BY <1>9, <2>1, <2>2, <3>2
  <2>3. CASE h.desc # d
    <3>1. \A k : <<h.desc, k>> \in switched <=> <<h.desc, k>> \in switched'
      BY <1>3, <2>3
    <3> QED BY <1>9, <2>1, <2>3, <3>1 DEF StillDrawn
  <2> QED BY <2>2, <2>3
<1>17. ASSUME NEW h \in drawn' PROVE StillDrawn(h, fonts'[h.desc], switched')
  <2>1. CASE h \in drawn
    BY <1>16, <2>1
  <2>2. CASE h \notin drawn
    <3>1. h = g /\ a.face # 0 /\ Having(a.faces, s) # {}
      BY <1>3, <2>2
    <3>2. fonts'[h.desc] = a.faces
      BY <1>1, <1>6, <1>9, <3>1
    <3> QED BY <1>12, <3>1, <3>2
  <2> QED BY <2>1, <2>2
<1> QED BY <1>8, <1>15, <1>17 DEF IInv, Sound

\* No step breaks the invariant.
LEMMA NextIInv == IInv /\ [Next]_vars => IInv'
<1> SUFFICES ASSUME IInv, [Next]_vars PROVE IInv'
  OBVIOUS
<1>1. CASE StartFrame
  BY <1>1, StartFrameIInv
<1>2. CASE AddFont
  BY <1>2, AddFontIInv
<1>3. CASE SetFonts
  BY <1>3, SetFontsIInv
<1>4. ASSUME NEW e \in Events, Open(e) PROVE IInv'
  BY <1>4, OpenIInv
<1>5. ASSUME NEW e \in Events, Lookup(e) PROVE IInv'
  BY <1>5, LookupIInv
<1>6. CASE UNCHANGED vars
  <2>1. TypeOK'
    BY <1>6 DEF IInv, TypeOK, vars
  <2>2. Sound'
    BY <1>6 DEF IInv, Sound, vars
  <2> QED BY <2>1, <2>2 DEF IInv
<1> QED BY <1>1, <1>2, <1>3, <1>4, <1>5, <1>6 DEF Next

\* The inductive invariant, of every behaviour.
THEOREM Invariance == Spec => []IInv
<1>1. Init => IInv
  BY InitIInv
<1>2. IInv /\ [Next]_vars => IInv'
  BY NextIInv
<1> QED BY <1>1, <1>2, PTL DEF Spec

-----------------------------------------------------------------------------
(* Results                                                                 *)

\* No font of the database is opened twice for a logical font, and the table
\* of faces is never exceeded (add_face).
THEOREM FacesAreDistinct == Spec => []NoFaceTwice
<1>1. IInv => NoFaceTwice
  <2> SUFFICES ASSUME IInv, NEW d \in Descs,
                      NEW j \in DOMAIN fonts[d], NEW k \in DOMAIN fonts[d],
                      fonts[d][j].listed, fonts[d][k].listed,
                      fonts[d][j].file = fonts[d][k].file
               PROVE  j = k
    BY DEF NoFaceTwice, IInv
  <2> DEFINE u == fonts[d][j].uid
             v == fonts[d][k].uid
  <2>1. Numbered(selector) /\ FacesOK(selector, fonts[d])
    BY DEF IInv, Sound
  <2>2. /\ First(selector, u) /\ First(selector, v)
        /\ selector.font_infos[u].file = selector.font_infos[v].file
    BY <2>1 DEF FacesOK, FaceOK
  <2>3. u \in Nat /\ v \in Nat /\ u >= 1 /\ v >= 1
    BY <2>1, <2>2, SelectorFields DEF First
  <2> HIDE DEF u, v
  <2>4. u \notin 1 .. v - 1 /\ v \notin 1 .. u - 1
    BY <2>2 DEF First
  <2>5. u = v
    BY <2>3, <2>4
  <2> QED BY <2>1, <2>5 DEF FacesOK, u, v
<1> QED BY <1>1, Invariance, PTL

\* A symbol of a font keeps its face and its glyph, whatever faces other
\* symbols add and in whatever order (ass_font_get_index).
THEOREM GlyphsStay == Spec => []SameGlyph
<1>1. IInv => SameGlyph
  <2> SUFFICES ASSUME IInv, NEW a \in drawn, NEW b \in drawn,
                      a.desc = b.desc, a.symbol = b.symbol,
                      \A k \in 1 .. a.face : <<a.desc, k>> \notin switched,
                      \A k \in 1 .. b.face : <<b.desc, k>> \notin switched
               PROVE  a = b
    BY DEF SameGlyph
  <2> DEFINE faces == fonts[a.desc]
  <2>1. a \in Glyph /\ b \in Glyph /\ a.desc \in Descs /\ FacesOK(selector, faces)
    BY DEF IInv, Sound, TypeOK, Glyph
  <2>2. StillDrawn(a, faces, switched) /\ StillDrawn(b, faces, switched)
    BY DEF IInv, Sound
  <2> HIDE DEF faces
  <2>3. /\ faces[a.face].file = a.file /\ GlyphIn(faces[a.face], a.symbol) = a.glyph
        /\ faces[b.face].file = b.file /\ GlyphIn(faces[b.face], a.symbol) = b.glyph
        /\ a.glyph # 0 /\ b.glyph # 0
        /\ a.face \notin 1 .. b.face - 1 /\ b.face \notin 1 .. a.face - 1
    BY <2>2 DEF StillDrawn
  <2>4. a.face \in 1 .. Len(faces) /\ b.face \in 1 .. Len(faces) /\ Len(faces) \in Nat
    BY <2>1, <2>2, FaceFields DEF StillDrawn
  <2>5. a.face = b.face
    BY <2>3, <2>4
  <2>6. a.file = b.file /\ a.glyph = b.glyph
    BY <2>3, <2>5
  <2> QED BY <2>1, <2>5, <2>6 DEF Glyph
<1> QED BY <1>1, Invariance, PTL
================================================================================
