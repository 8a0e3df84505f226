--------------------------- MODULE MCImageHandler ---------------------------
(* An instance of ImageHandler: a file whose suffix is right and one without  *)
(* a suffix (one with a suffix that nobody knows may be added), a photograph  *)
(* that EXIF turns, a bitmap and a picture that FreeImage does not recognise. *)
EXTENDS ImageHandler

MCAngles == {45, 90, -90}
MCSuffix == [f \in Files |-> CASE f = "photo.jpg" -> "JPG" [] f = "picture.foo" -> "FOO" [] OTHER -> ""]

Content(type, magic, picture, turn) ==
    [type |-> type, magic |-> magic, picture |-> picture, turn |-> turn]
MCContents ==
    {Content("JPEG", "JPG", <<"tree", 0>>, 1), Content("BMP", "BMP", <<"tree", 2>>, 0),
     Content(Unknown, "SVG", <<"tree", 0>>, 0)}
=============================================================================
