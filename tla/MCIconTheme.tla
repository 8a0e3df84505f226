---------------------------- MODULE MCIconTheme -----------------------------
(* Two icon themes, two icons of one name.                                    *)
EXTENDS IconTheme, ImageChecks, TLC

IconSymmetry == Permutations(Icons)

MCRequests == {<<20, "disabled">>}
MCThemes == {"t1", "t2"}

Scale(r) == [ratio |-> r, padding |-> r, palette |-> r = 1]
Pic(m, t) == [mode |-> m, type |-> t, scales |-> <<Scale(1), Scale(2), Scale(Bad)>>]
Dir(s, images) == [size |-> s, images |-> images]

(* A complete icon, one that lacks images, one with wrong names only.         *)
Complete == <<Dir(16, {Pic("normal", "light"), Pic("normal", "dark")}),
              Dir(20, {Pic(m, t) : m \in {"normal", "disabled"}, t \in LookTypes}),
              Dir(Bad, {Pic("normal", "light")}),
              Dir(32, {Pic("normal", t) : t \in LookTypes})>>
Partial == <<Dir(16, {Pic("normal", "light"), Pic("disabled", "dark")}),
             Dir(18, {Pic("hover", "light"), Pic("bad", "dark")})>>
Misnamed == <<Dir(20, {Pic("normal", "bad")})>>

MCDciFiles == [p \in IconPlaces |-> IF p = ThemePlace("t1") THEN Complete
                                ELSE IF p = PlainPlace THEN Misnamed
                                ELSE IF p = OwnPlace("t2") THEN Partial ELSE Complete]

(* The search of a match finds what the format asks for, whatever is asked.   *)
ASSUME SearchAssumption ==
    \A file \in {Complete, Partial, Misnamed}, size \in 14..34, type \in LookTypes, mode \in Modes :
        RightMatch(file, Image(TryMatchIcon(LoadIconList(file), size, type, mode, FALSE, TRUE), 1),
                   size, type, mode)

Start(f, l, b, x, q) == [files |-> f, later |-> l, builtin |-> b, xdg |-> x, qt |-> q]
MCStarts ==
    {Start({ThemePlace("t1"), ThemePlace("t2")}, {}, {"light"}, {"t1"}, TRUE),
     Start({ThemePlace("t1"), OwnPlace("t2")}, {}, {}, {"t2"}, FALSE),
     Start({OwnPlace("t2")}, {ThemePlace("t1")}, LookTypes, {}, FALSE),
     Start({ThemePlace("t1")}, {ThemePlace("t2")}, {"dark"}, {"t1", "t2"}, TRUE),
     Start({}, {PlainPlace}, {}, {"t1"}, FALSE),
     Start({BuiltInPlace}, {OwnPlace("t1")}, {"light"}, {}, FALSE)}

=============================================================================
