----------------------------- MODULE FontSelect ------------------------------
(***************************************************************************)
(* libass/ass_fontselect.c: the font database of a renderer and the search *)
(* for a font of a given name that has a given symbol.  The database is    *)
(* filled from the fonts attached to scripts and by the provider of system *)
(* fonts: fontconfig adds all fonts at once (Scanned), DirectWrite and     *)
(* CoreText add those of a name when it is first asked for (MatchFonts).   *)
(*                                                                         *)
(* A name stands for all the spellings ass_strcasecmp finds equal.  What a *)
(* provider answers is a constant: the fonts installed do not change.      *)
(***************************************************************************)
EXTENDS Integers, Sequences

CONSTANTS
  Files,          \* the font faces there are
  Font,           \* what each of them holds, see FontInfo
  Symbols,        \* codepoints
  Names,          \* names of fonts
  None,
  Substitutes,    \* get_substitutions: the names to try for a name, if any
  MatchFonts,     \* match_fonts: the fonts the provider adds for a name
  Fallback,       \* get_fallback: for a name, a family that has the codepoint
  DefaultFamily,  \* default_family of ass_set_fonts, or None
  DefaultPath     \* default_font of ass_set_fonts, or None

AnySymbol == 0    \* the code add_face is called with for a new font

\* A charmap as ass_font_index_magic and FT_Get_Char_Index make use of it: the
\* glyph each codepoint leads to, 0 if none.  Microsoft charmaps are "ucs4",
\* "bmp" or, for other encodings, "ms".
Charmap == [kind : {"ucs4", "bmp", "ms", "other"}, glyph : [Symbols -> Nat]]

FontInfo == [families : SUBSET Names, extended_family : Names \cup {None},
             fullnames : SUBSET Names, postscript_name : Names \cup {None},
             is_postscript : BOOLEAN, bold : BOOLEAN, italic : BOOLEAN,
             weight : Nat,
             coverage : SUBSET Symbols,       \* check_glyph
             charmaps : Seq(Charmap),
             charmap : Nat]                   \* autodetected by FreeType, or 0

ASSUME FontSelectAssumption ==
  /\ Symbols \subseteq {s \in Nat : s >= 32}   \* no glyphs for control characters
  /\ Font \in [Files -> FontInfo]
  /\ \A f \in Files : Font[f].charmap \in 0 .. Len(Font[f].charmaps)
  /\ None \notin Names /\ None \notin Files
  /\ Substitutes \in [Names -> Seq(Names)]
  /\ MatchFonts \in [Names -> Seq(Files)]
  /\ (\E n \in Names : MatchFonts[n] # <<>>) =>
       \A n \in Names : Len(Substitutes[n]) <= 1
  /\ Fallback \in [Names -> [Symbols \cup {AnySymbol} -> Names \cup {None}]]
  /\ DefaultFamily \in Names \cup {None} /\ DefaultPath \in Files \cup {None}

\* A logical font, as asked for by a script.
FontDesc == [family : Names, bold : Nat, italic : Nat]

\* The database: selector->font_infos and the counter of uids.
Entry    == [uid : Nat, file : Files]
Selector == [font_infos : Seq(Entry), uid : Nat]

Empty == [font_infos |-> <<>>, uid |-> 1]

\* ass_font_provider_add_font, for each of some fonts.
AddFonts(sel, files) ==
  [font_infos |-> sel.font_infos \o
     [k \in DOMAIN files |-> [uid |-> sel.uid + k - 1, file |-> files[k]]],
   uid |-> sel.uid + Len(files)]

-----------------------------------------------------------------------------
(* Matching one font                                                       *)

MatchesFamilyName(f, name, extended) ==
  name \in Font[f].families \/ (extended /\ Font[f].extended_family = name)

\* A name that is only one of full name and PostScript name counts if it is
\* the one its kind of font goes by.
MatchesFullOrPostscriptName(f, name) ==
  IF Font[f].is_postscript THEN Font[f].postscript_name = name
                           ELSE name \in Font[f].fullnames

Matches(f, name, extended) == MatchesFamilyName(f, name, extended)
                                \/ MatchesFullOrPostscriptName(f, name)

Covers(f, code) == code = AnySymbol \/ code \in Font[f].coverage

Distance(a, b) == IF a < b THEN b - a ELSE a - b

\* The lower the better: font_attributes_similarity in a family, 0 for a font
\* that was asked for by its full name.
Score(f, name, extended, desc) ==
  LET faux  == desc.bold > Font[f].weight + 150 /\ ~Font[f].bold
      slant == IF desc.italic # 0 /\ ~Font[f].italic THEN 1
               ELSE IF desc.italic = 0 /\ Font[f].italic THEN 4 ELSE 0
  IN IF MatchesFamilyName(f, name, extended)
       THEN slant + (73 * Distance(Font[f].weight + (IF faux THEN 120 ELSE 0),
                                   desc.bold)) \div 256
       ELSE 0

-----------------------------------------------------------------------------
(* Searching the database                                                  *)

Least(S) == CHOOSE x \in S : \A y \in S : x <= y

\* The fonts that go by a name and have a symbol, ...
Candidates(sel, name, extended, code) ==
  {k \in DOMAIN sel.font_infos : /\ Matches(sel.font_infos[k].file, name, extended)
                                 /\ Covers(sel.font_infos[k].file, code)}

\* ... and the first of those with the lowest score.
Best(sel, name, extended, desc, code) ==
  LET S == Candidates(sel, name, extended, code)
      score(k) == Score(sel.font_infos[k].file, name, extended, desc)
  IN Least({k \in S : \A j \in S : score(k) <= score(j)})

\* find_font: the index of the font, or 0.  The first name under which any
\* font is found decides.
FindFont(sel, names, extended, desc, code) ==
  LET found == {n \in DOMAIN names : Candidates(sel, names[n], extended, code) # {}}
  IN IF found = {} THEN 0
     ELSE Best(sel, names[Least(found)], extended, desc, code)

\* find_font's name_match: whether any font goes by one of the names.
NameMatch(sel, names, extended) ==
  \E k \in DOMAIN sel.font_infos, n \in DOMAIN names :
    Matches(sel.font_infos[k].file, names[n], extended)

NamesFor(family) ==
  IF Substitutes[family] = <<>> THEN <<family>> ELSE Substitutes[family]

\* What a search ends with: the database, extended perhaps, and the index of
\* the font found.
Found(sel, at) == [sel |-> sel, at |-> at]

\* The second search of select_font.
Again(sel, names, extended, desc, code) ==
  Found(sel, FindFont(sel, names, extended, desc, code))

\* select_font: fonts of a name that no font in the database goes by are asked
\* for, of the provider.  (The providers that do so give one substitute at most.)
SelectFont(sel, names, extended, desc, code) ==
  IF NameMatch(sel, names, extended)
    THEN Found(sel, FindFont(sel, names, extended, desc, code))
    ELSE Again(AddFonts(sel, MatchFonts[names[1]]), names, extended, desc, code)

\* A further attempt, if the ones before have failed.
OrElse(r, family, extended, desc, code) ==
  IF r.at # 0 \/ family = None THEN r
  ELSE SelectFont(r.sel, NamesFor(family), extended, desc, code)

\* ass_font_select, but for the default font file: by the name, the default
\* family, and the family the provider has for the symbol.
FontSelect(sel, desc, code) ==
  LET named   == OrElse(Found(sel, 0), desc.family, FALSE, desc, code)
      default == OrElse(named, DefaultFamily, FALSE, desc, code)
  IN OrElse(default, Fallback[desc.family][code], TRUE, desc, code)
=============================================================================
