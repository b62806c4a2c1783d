-------------------------------- MODULE Fonts --------------------------------
(***************************************************************************)
(* libass/ass_font.c: logical fonts, made of faces that are added when a   *)
(* symbol is first needed that no face has yet.  The fonts are shared by   *)
(* the threads that render the events of a frame; everything here is done  *)
(* under one lock, font_lock, so that a step is a whole ass_font_new or    *)
(* ass_font_get_index.  What the lock does not settle is the order.        *)
(***************************************************************************)
EXTENDS FontSelect

CONSTANTS
  MaxFaces,     \* ASS_FONT_MAX_FACES
  Descs,        \* the logical fonts asked for
  NEvents,      \* the events of a frame, in the order of the track
  Texts,        \* per event, what rendering it may ask for
  Scanned,      \* the fonts the provider adds when the selector is made
  Attachments,  \* fonts attached to scripts, in the order they are read
  Junk,         \* what an uninitialised int may hold
  MaxFrames,    \* bound on the frames rendered
  MayFail       \* may opening a face fail?

Events == 1 .. NEvents

\* A request: for the font itself (AnySymbol), or for a symbol of it.
Request == [desc : Descs, symbol : Symbols \cup {AnySymbol}]

Opens(text, d) == \E k \in DOMAIN text : text[k] = [desc |-> d, symbol |-> AnySymbol]

\* The text of an event is parsed, and its fonts opened, before any of its
\* symbols is looked up.
ASSUME FontsAssumption ==
  /\ MaxFaces \in Nat \ {0} /\ MaxFrames \in Nat /\ NEvents \in Nat
  /\ Descs \subseteq FontDesc
  /\ Texts \in [Events -> SUBSET Seq(Request)]
  /\ \A e \in Events : \A text \in Texts[e] : \A k \in DOMAIN text :
       Opens(SubSeq(text, 1, k), text[k].desc)
  /\ Scanned \in Seq(Files) /\ Attachments \in Seq(Files)
  /\ Junk \subseteq Nat /\ Junk # {}
  /\ MayFail \in BOOLEAN

VARIABLES
  selector,     \* render_priv->fontselect
  num_fontdata, \* of the library: the attachments read so far
  num_emfonts,  \* of the renderer: those that are in the selector
  fonts,        \* the font cache: per description, its faces
  failed,       \* the fonts no face was found for
  todo,         \* per event, what its thread has yet to ask for
  frames,       \* frames started so far
  drawn,        \* history: the glyphs handed out
  switched      \* history: faces whose charmap was changed while in use

vars == <<selector, num_fontdata, num_emfonts, fonts, failed, todo, frames,
          drawn, switched>>

\* "listed": the face was chosen from the database (the default font is not).
Face  == [uid : Nat, file : Files, charmap : Nat, listed : BOOLEAN]
Glyph == [desc : Descs, symbol : Symbols, face : Nat, file : Files, glyph : Nat]

TypeOK ==
  /\ selector \in Selector
  /\ num_fontdata \in 0 .. Len(Attachments)
  /\ num_emfonts \in 0 .. num_fontdata
  /\ fonts \in [Descs -> Seq(Face)] /\ \A d \in Descs : Len(fonts[d]) <= MaxFaces
  /\ failed \in SUBSET Descs
  /\ todo \in [Events -> Seq(Request)]
  /\ frames \in Nat
  /\ drawn \in SUBSET Glyph
  /\ switched \in SUBSET (Descs \X Nat)

-----------------------------------------------------------------------------
(* Faces                                                                   *)

\* ass_charmap_magic: the charmap a face is opened with.
CharmapMagic(f) ==
  LET Of(kind) == {c \in DOMAIN Font[f].charmaps : Font[f].charmaps[c].kind = kind}
  IN CASE Of("ucs4") # {} -> Least(Of("ucs4"))
       [] Of("ucs4") = {} /\ Of("bmp") # {} -> Least(Of("bmp"))
       [] Of("ucs4") = {} /\ Of("bmp") = {} /\ Of("ms") # {} -> Least(Of("ms"))
       [] OTHER -> IF Font[f].charmap = 0 /\ Font[f].charmaps # <<>> THEN 1
                                                    ELSE Font[f].charmap

\* ass_font_index_magic and FT_Get_Char_Index.
GlyphIn(face, symbol) ==
  IF face.charmap = 0 THEN 0
                      ELSE Font[face.file].charmaps[face.charmap].glyph[symbol]

\* What add_face leaves behind: the selector, the faces of the font, and the
\* index of the face for the symbol, or 0.
Added(sel, faces, face) == [sel |-> sel, faces |-> faces, face |-> face]

\* What has been chosen.  Of the default font, the uid is what happens to be
\* in the caller's variable: ass_font_select does not set it.
Chosen(r, junk) == IF r.at # 0 THEN r.sel.font_infos[r.at]
                               ELSE [uid |-> junk, file |-> DefaultPath]

Opened(entry, listed) == [uid |-> entry.uid, file |-> entry.file,
                          charmap |-> CharmapMagic(entry.file), listed |-> listed]

\* (Mutant: a face that is there already is not noticed.)
Same_never(faces, entry) == {}

\* The faces of a font that are the one chosen, going by their uids.
Same(faces, entry) == {k \in DOMAIN faces : faces[k].uid = entry.uid}

Full(faces) == Len(faces) = MaxFaces

AddChosen(r, faces, entry, fails) ==
  IF entry.file = None THEN Added(r.sel, faces, 0)
  ELSE IF Same(faces, entry) # {} THEN Added(r.sel, faces, Least(Same(faces, entry)))
  ELSE IF fails THEN Added(r.sel, faces, 0)
  ELSE Added(r.sel, Append(faces, Opened(entry, r.at # 0)), Len(faces) + 1)

AddSelected(r, faces, junk, fails) == AddChosen(r, faces, Chosen(r, junk), fails)

\* add_face.
AddFace(sel, faces, desc, code, junk, fails) ==
  IF Full(faces) THEN Added(sel, faces, 0)
                 ELSE AddSelected(FontSelect(sel, desc, code), faces, junk, fails)

\* "Trying all charmaps": the one a face is left with, when the symbol is not
\* in the charmap it has.
Trying(face, symbol) ==
  LET cms == Font[face.file].charmaps
      hit == {c \in DOMAIN cms : cms[c].glyph[symbol] # 0}
  IN IF GlyphIn(face, symbol) # 0 \/ cms = <<>> THEN face.charmap
     ELSE IF hit # {} THEN Least(hit) ELSE Len(cms)

\* The faces of a font that have a symbol.
Having(faces, symbol) == {k \in DOMAIN faces : GlyphIn(faces[k], symbol) # 0}

\* The new face, with the charmap that has the symbol.
Tried(a, symbol) ==
  IF a.face = 0 THEN a
  ELSE [a EXCEPT !.faces = [@ EXCEPT ![a.face].charmap = Trying(a.faces[a.face], symbol)]]

\* (Mutant: the face added last is taken.)
Choose_last(S) == CHOOSE k \in S : \A j \in S : j <= k

\* The first of them is taken.
Choose(S) == Least(S)

\* ass_font_get_index.
GetIndex(sel, faces, desc, symbol, junk, fails) ==
  IF Having(faces, symbol) # {}
    THEN Added(sel, faces, Choose(Having(faces, symbol)))
    ELSE Tried(AddFace(sel, faces, desc, symbol, junk, fails), symbol)

-----------------------------------------------------------------------------
(* Rendering a frame                                                       *)

\* ass_fontselect_init: the attachments, then what the provider scans.
Selected(n) == AddFonts(AddFonts(Empty, SubSeq(Attachments, 1, n)), Scanned)

Init ==
  /\ num_fontdata \in 0 .. Len(Attachments)
  /\ num_emfonts = num_fontdata
  /\ selector = Selected(num_fontdata)
  /\ fonts = [d \in Descs |-> <<>>] /\ failed = {}
  /\ todo = [e \in Events |-> <<>>] /\ frames = 0
  /\ drawn = {} /\ switched = {}

BetweenFrames == \A e \in Events : todo[e] = <<>>

\* ass_start_frame, with ass_update_embedded_fonts, and the tasks of a frame.
StartFrame ==
  /\ BetweenFrames /\ frames < MaxFrames
  /\ frames' = frames + 1
  /\ selector' = AddFonts(selector, SubSeq(Attachments, num_emfonts + 1, num_fontdata))
  /\ num_emfonts' = num_fontdata
  /\ \E text \in [Events -> UNION {Texts[e] : e \in Events}] :
       todo' = text /\ \A e \in Events : text[e] \in Texts[e]
  /\ UNCHANGED <<num_fontdata, fonts, failed, drawn, switched>>

\* ass_font_new: the font is made of one face to begin with.  (Of two threads
\* that make the same font at once, the cache keeps one; what the other leaves
\* behind is in the selector either way.)  An event one of whose fonts cannot
\* be made, now or earlier, is not rendered: parse_events fails.
Open(e) ==
  /\ todo[e] # <<>> /\ Head(todo[e]).symbol = AnySymbol
  /\ LET d == Head(todo[e]).desc IN
     \/ /\ fonts[d] # <<>> \/ d \in failed
        /\ UNCHANGED <<selector, fonts, failed>>
     \/ /\ fonts[d] = <<>> /\ d \notin failed
        /\ \E junk \in Junk, fails \in {FALSE, MayFail} :
           \E a \in {AddFace(selector, <<>>, d, AnySymbol, junk, fails)} :
             /\ selector' = a.sel
             /\ fonts' = [fonts EXCEPT ![d] = a.faces]
             /\ failed' = IF a.face = 0 THEN failed \cup {d} ELSE failed
  /\ todo' = [todo EXCEPT ![e] = IF Head(@).desc \in failed' THEN <<>> ELSE Tail(@)]
  /\ UNCHANGED <<num_fontdata, num_emfonts, frames, drawn, switched>>

\* ass_font_get_index for a symbol of the event.
Lookup(e) ==
  /\ todo[e] # <<>> /\ Head(todo[e]).symbol # AnySymbol
  /\ LET d == Head(todo[e]).desc
         s == Head(todo[e]).symbol
     IN \E junk \in Junk, fails \in {FALSE, MayFail} :
        \E a \in {GetIndex(selector, fonts[d], d, s, junk, fails)} :
          /\ selector' = a.sel
          /\ fonts' = [fonts EXCEPT ![d] = a.faces]
          /\ drawn' = IF a.face = 0 \/ Having(a.faces, s) = {} THEN drawn
               ELSE drawn \cup {[desc |-> d, symbol |-> s, face |-> a.face,
                                 file |-> a.faces[a.face].file,
                                 glyph |-> GlyphIn(a.faces[a.face], s)]}
          /\ switched' = switched \cup
               {<<d, k>> : k \in {j \in DOMAIN fonts[d] :
                                    fonts[d][j].charmap # a.faces[j].charmap}}
  /\ todo' = [todo EXCEPT ![e] = Tail(@)]
  /\ UNCHANGED <<num_fontdata, num_emfonts, failed, frames>>

-----------------------------------------------------------------------------
(* Between frames                                                          *)

\* ass_add_font.
AddFont ==
  /\ BetweenFrames
  /\ num_fontdata < Len(Attachments)
  /\ num_fontdata' = num_fontdata + 1
  /\ UNCHANGED <<selector, num_emfonts, fonts, failed, todo, frames, drawn, switched>>

\* ass_set_fonts: the font cache is emptied and the selector made anew.
SetFonts ==
  /\ BetweenFrames
  /\ fonts' = [d \in Descs |-> <<>>] /\ failed' = {}
  /\ selector' = Selected(num_fontdata) /\ num_emfonts' = num_fontdata
  /\ drawn' = {} /\ switched' = {}
  /\ UNCHANGED <<num_fontdata, todo, frames>>

Next == \/ StartFrame \/ AddFont \/ SetFonts
        \/ \E e \in Events : Open(e) \/ Lookup(e)

Spec == Init /\ [][Next]_vars

-----------------------------------------------------------------------------
(* Properties                                                              *)

\* "Got a font face that already is available! Skipping": however often it is
\* asked for, and under however many names, no font of the database is opened
\* twice for one logical font - even where on-demand providers add a font to
\* the database again. Its table of faces is never exceeded (add_face).
NoFaceTwice ==
  /\ TypeOK
  /\ \A d \in Descs : \A j, k \in DOMAIN fonts[d] :
       fonts[d][j].listed /\ fonts[d][k].listed
         /\ fonts[d][j].file = fonts[d][k].file => j = k

\* Without exception: the default font is not opened twice either.
EachFaceOnce ==
  \A d \in Descs : \A j, k \in DOMAIN fonts[d] :
    fonts[d][j].file = fonts[d][k].file => j = k

\* A symbol keeps the face and the glyph it was first drawn with, whatever
\* faces other symbols have added since and in whatever order; unless "trying
\* all charmaps" has changed the charmap of a face before or at its own.
SameGlyph ==
  \A a, b \in drawn :
    /\ a.desc = b.desc /\ a.symbol = b.symbol
    /\ \A k \in 1 .. a.face : <<a.desc, k>> \notin switched
    /\ \A k \in 1 .. b.face : <<b.desc, k>> \notin switched
    => a = b
=============================================================================
