---------------------------- MODULE ImageHandler ----------------------------
(* A DImageHandler: the format it finds a file to have, what it loads, keeps, *)
(* saves and rotates.  The table of FreeImage's formats is one for the        *)
(* process, and the look-ups of detectImageFormatInternal write to it.        *)
(*                                                                            *)
(* What a file holds is a record: the type FreeImage recognises, the format   *)
(* its first bytes tell, its stored picture and the turn its EXIF data ask    *)
(* for.  A picture is what it shows and how far it is turned, in quarters.    *)
EXTENDS Integers

CONSTANTS
    Files,       \* names of files
    Suffix,      \* the suffix of a file in capitals, "" for none
    Shows,       \* what pictures show
    Formats,     \* that an image is saved to, "" for the one of the file
    Contents,    \* what other programs write to a file
    Angles,      \* that a file is rotated by
    QtPlugins,   \* the formats of Qt's image plugins
    FreeImage,   \* isValid() of the library FreeImage
    LibRaw       \* isValid() of the library LibRaw

VARIABLES
    disk,              \* what each file holds
    freeImageFormats,  \* SupportFormats: from suffixes to types
    fileName, options, cachedImage, cachedFormat, lastError,
    written            \* was the file written to since cachedImage was loaded

handler == <<fileName, options, cachedImage, cachedFormat, lastError>>
vars == <<disk, freeImageFormats, handler, written>>

NoFile == "no file"
NoImage == <<>>
Unknown == "FIF_UNKNOWN"
Pictures == Shows \X (0..3)
Nothing == [type |-> Unknown, magic |-> "", picture |-> NoImage, turn |-> 0]

(* QTransform::rotate, by quarters.                                           *)
Turned(picture, quarters) ==
    IF picture = NoImage THEN NoImage ELSE <<picture[1], (picture[2] + quarters) % 4>>

-----------------------------------------------------------------------------
(* SupportFormats, less the formats treated like one of these.                *)
Known ==
    [s \in {"BMP", "ICO", "JPG", "JPEG", "MNG", "PCX", "PNG", "TIF", "TIFF", "GIF", "PCT", "PIC", "WEBP"} |->
        CASE s \in {"JPG", "JPEG"} -> "JPEG"
          [] s \in {"TIF", "TIFF"} -> "TIFF"
          [] s \in {"PCT", "PIC"} -> "PICT"
          [] OTHER -> s]
RawFormats == {"CR2", "NEF", "DNG", "RAW"}
QtSupportFormats ==
    (QtPlugins \cup {"PNM", "MEF", "PXM"}) \ (IF FreeImage THEN {"PCX"} ELSE {})
SaveableFormats == {"BMP", "JPG", "JPEG", "PNG", "PNM", "ICO"}
QtRotatableFormats == {"ICNS", "JPG", "JPEG", "PNG", "BMP"}
SupportFormats ==
    QtSupportFormats \cup (IF FreeImage THEN DOMAIN Known ELSE {})
                     \cup (IF LibRaw THEN RawFormats ELSE {})

formatReadable(format) == format # "" /\ format \in SupportFormats
formatWriteable(format) == format # "" /\ format \in SaveableFormats

(* QHash::operator[] makes an entry, 0 is FIF_BMP; QHash::key gives one of    *)
(* the keys.                                                                  *)
Looked(table, suffix) ==
    IF suffix \in DOMAIN table THEN table
    ELSE [s \in DOMAIN table \cup {suffix} |-> IF s = suffix THEN "BMP" ELSE table[s]]
Keys(table, type) == {s \in DOMAIN table : table[s] = type}

(* detectImageFormatInternal: the table it leaves, and the formats it may     *)
(* tell: the suffix if FreeImage does not know better, and what the first     *)
(* bytes tell if there is none.                                               *)
Recognised(file) == FreeImage /\ disk[file].type # Unknown
TableAfter(table, file) == IF Recognised(file) THEN Looked(table, Suffix[file]) ELSE table

Corrected(table, file) ==
    LET type == disk[file].type
        t == TableAfter(table, file)
    IN IF ~Recognised(file) THEN {Suffix[file]}
       ELSE IF type = "TIFF" THEN {"TIFF"}
       ELSE IF type = t[Suffix[file]] \/ Keys(t, type) = {} THEN {Suffix[file]}
       ELSE {IF k = "" THEN Suffix[file] ELSE k : k \in Keys(t, type)}
Detected(table, file) ==
    {IF s = "" THEN disk[file].magic ELSE s : s \in Corrected(table, file)}

-----------------------------------------------------------------------------
(* loadStaticImageFromFile: where FreeImage is there, its format is the       *)
(* suffix.  QImageReader turns the picture as EXIF tells, FreeImage and       *)
(* LibRaw do not; each of them may fail.                                      *)
Upright(content) == Turned(content.picture, content.turn)
LoadFormats(file) ==
    IF FreeImage THEN {Suffix[file]} ELSE Detected(freeImageFormats, file)

(* loadImageWithFreeImage                                                     *)
FreeImageLoads(file, format) ==
    IF FreeImage /\ (disk[file].type # Unknown \/ format \in DOMAIN TableAfter(freeImageFormats, file))
    THEN {disk[file].picture, NoImage} ELSE {NoImage}

Loads(file, format) ==
    IF disk[file] = Nothing THEN {NoImage}
    ELSE IF (Recognised(file) /\ disk[file].type = "PICT" /\ format # "PCT") \/ format \in QtSupportFormats
    THEN {Upright(disk[file]), NoImage}
         \cup (IF Recognised(file) THEN FreeImageLoads(file, format) ELSE {})
    ELSE IF format \in RawFormats /\ LibRaw THEN {disk[file].picture, NoImage}
    ELSE FreeImageLoads(file, format)

(* What there is to load, nothing without a name of a file.                   *)
Absent == fileName = NoFile \/ disk[fileName] = Nothing
Loadable ==
    IF Absent THEN {NoImage} ELSE UNION {Loads(fileName, format) : format \in LoadFormats(fileName)}
TableAfterLoad == IF Absent THEN freeImageFormats ELSE TableAfter(freeImageFormats, fileName)

(* What readImage, thumbnail and imageSize do: an image is loaded once.       *)
Load ==
    IF cachedImage # NoImage THEN UNCHANGED <<cachedImage, freeImageFormats, lastError, written>>
    ELSE /\ cachedImage' \in Loadable
         /\ freeImageFormats' = TableAfterLoad
         /\ lastError' = (lastError \/ cachedImage' = NoImage)
         /\ written' = FALSE

-----------------------------------------------------------------------------
Init ==
    /\ disk \in [Files -> Contents \cup {Nothing}]
    /\ freeImageFormats = Known
    /\ fileName = NoFile /\ options = {} /\ cachedImage = NoImage
    /\ cachedFormat = "" /\ lastError = FALSE
    /\ written = FALSE

setFileName(file) ==
    /\ file # fileName
    /\ fileName' = file
    /\ cachedImage' = NoImage /\ lastError' = FALSE
    /\ written' = FALSE
    /\ IF file = NoFile
       THEN cachedFormat' = "" /\ options' = {} /\ UNCHANGED freeImageFormats
       ELSE /\ \E format \in Detected(freeImageFormats, file) : cachedFormat' = format
            /\ freeImageFormats' = TableAfter(freeImageFormats, file)
            /\ options' = (IF formatReadable(cachedFormat') THEN {"Readable"} ELSE {})
                          \cup (IF formatWriteable(cachedFormat') THEN {"Wirteable", "Rotatable"} ELSE {})
    /\ UNCHANGED disk

readImage ==
    /\ IF "Readable" \in options THEN Load
       ELSE lastError' = TRUE /\ UNCHANGED <<cachedImage, freeImageFormats, written>>
    /\ UNCHANGED <<disk, fileName, options, cachedFormat>>

thumbnail ==
    /\ Load
    /\ UNCHANGED <<disk, fileName, options, cachedFormat>>

imageSize ==
    /\ "Readable" \in options
    /\ Load
    /\ UNCHANGED <<disk, fileName, options, cachedFormat>>

clearCache ==
    /\ cachedImage' = NoImage /\ cachedFormat' = "" /\ lastError' = FALSE
    /\ written' = FALSE
    /\ UNCHANGED <<disk, freeImageFormats, fileName, options>>

detectImageFormat(file) ==
    /\ freeImageFormats' = TableAfter(freeImageFormats, file)
    /\ UNCHANGED <<disk, handler, written>>

-----------------------------------------------------------------------------
(* A file comes to hold something else.                                       *)
Writes(file, content) ==
    /\ disk' = [disk EXCEPT ![file] = content]
    /\ written' = (written \/ (cachedImage' # NoImage /\ file = fileName))

(* QImage::save: upright, and without EXIF data; one that fails may leave     *)
(* nothing, and so may FreeImage_Save.                                        *)
TypeOf(format) == IF format \in DOMAIN Known THEN Known[format] ELSE Unknown
Saved(picture, format) ==
    [type |-> TypeOf(format), magic |-> format, picture |-> picture, turn |-> 0]
Save(picture, file, format) == Writes(file, Saved(picture, format))
SaveFails(file) == Writes(file, Nothing) \/ UNCHANGED <<disk, written>>

(* The formats saveImage may take for the one of a file.                      *)
FileFormats(table, file) ==
    IF ~Recognised(file) THEN Detected(table, file)
    ELSE LET keys == Keys(TableAfter(table, file), disk[file].type)
         IN IF keys = {} THEN {""} ELSE keys

SaveImage(picture, table, file, format) ==
    /\ freeImageFormats' = IF format = "" THEN TableAfter(table, file) ELSE table
    /\ \E real \in IF format = "" THEN FileFormats(table, file) ELSE {format} :
          \/ real \in SaveableFormats /\ Save(picture, file, real) /\ UNCHANGED lastError
          \/ real \in SaveableFormats /\ SaveFails(file) /\ lastError' = TRUE
          \/ real \notin SaveableFormats /\ lastError' = TRUE /\ UNCHANGED <<disk, written>>
    /\ UNCHANGED <<fileName, options, cachedFormat>>

(* saveImage of an image, and of the handler's own, which it loads first.     *)
saveImage(picture, file, format) ==
    UNCHANGED cachedImage /\ SaveImage(picture, freeImageFormats, file, format)

saveOwnImage(file, format) ==
    \/ /\ cachedImage # NoImage
       /\ saveImage(cachedImage, file, format)
    \/ /\ cachedImage = NoImage
       /\ cachedImage' \in Loadable
       /\ IF cachedImage' # NoImage THEN SaveImage(cachedImage', TableAfterLoad, file, format)
          ELSE /\ lastError' = TRUE
               /\ freeImageFormats' = TableAfterLoad
               /\ UNCHANGED <<disk, written, fileName, options, cachedFormat>>

(* rotateImageFile: by Qt, which does not heed EXIF data here, so that they   *)
(* are read by FreeImage, or by FreeImage itself, which writes the format of  *)
(* the suffix.  Success is told whether Qt could save or not.                 *)
RotatedByQt(content, quarters) ==
    Turned(IF FreeImage THEN Upright(content) ELSE content.picture, quarters)
RotatedByFreeImage(file, quarters, turn) ==
    [type |-> TypeOf(Suffix[file]), magic |-> Suffix[file],
     picture |-> Turned(disk[file].picture, quarters), turn |-> turn]

RotationFails == lastError' = TRUE /\ UNCHANGED <<disk, written>>
RotateAs(format, file, quarters) ==
    IF format \in QtRotatableFormats
    THEN IF disk[file].picture = NoImage THEN RotationFails
         ELSE /\ Save(RotatedByQt(disk[file], quarters), file, format) \/ SaveFails(file)
              /\ UNCHANGED lastError
    ELSE \/ RotationFails
         \/ /\ FreeImage /\ disk[file].picture # NoImage /\ TypeOf(Suffix[file]) # Unknown
            /\ \/ /\ \E turn \in {disk[file].turn, 0} : Writes(file, RotatedByFreeImage(file, quarters, turn))
                  /\ UNCHANGED lastError
               \/ SaveFails(file) /\ lastError' = TRUE

rotateImageFile(file, angle) ==
    /\ UNCHANGED <<fileName, options, cachedImage, cachedFormat>>
    /\ IF angle % 90 # 0
       THEN RotationFails /\ UNCHANGED freeImageFormats
       ELSE /\ \E format \in Detected(freeImageFormats, file) : RotateAs(format, file, angle \div 90)
            /\ freeImageFormats' = TableAfter(freeImageFormats, file)

(* Another program writes or removes a file.                                  *)
OtherWrites(file, content) ==
    /\ UNCHANGED <<freeImageFormats, handler>>
    /\ Writes(file, content)

Next ==
    \/ readImage \/ thumbnail \/ imageSize \/ clearCache
    \/ \E file \in Files \cup {NoFile} : setFileName(file)
    \/ \E file \in Files :
          \/ detectImageFormat(file)
          \/ \E format \in Formats : saveOwnImage(file, format)
          \/ \E s \in Shows, format \in Formats : saveImage(<<s, 0>>, file, format)
          \/ \E angle \in Angles : rotateImageFile(file, angle)
          \/ \E content \in Contents \cup {Nothing} : OtherWrites(file, content)
Spec == Init /\ [][Next]_vars

-----------------------------------------------------------------------------
(* Contents hold a picture or are damaged; the names of files are names.      *)
ContentOK(content) == content.picture \in Pictures \cup {NoImage} /\ content.turn \in 0..3
ConstantsOK ==
    /\ NoFile \notin Files
    /\ \A content \in Contents : ContentOK(content)
    /\ Angles \subseteq Int

HandlerOK ==
    /\ DOMAIN disk = Files /\ \A file \in Files : ContentOK(disk[file])
    /\ fileName \in Files \cup {NoFile}
    /\ cachedImage \in Pictures \cup {NoImage}
    /\ written \in BOOLEAN /\ (written => cachedImage # NoImage)

(* The table still says of every known suffix what it did, and takes every    *)
(* other for BMP.                                                             *)
Faithful(table) ==
    /\ DOMAIN Known \subseteq DOMAIN table
    /\ \A s \in DOMAIN table : table[s] = IF s \in DOMAIN Known THEN Known[s] ELSE "BMP"
TableOK == Faithful(freeImageFormats)

(* Whatever files were looked at before, a file is found to have the format   *)
(* that a new process finds, unless it is a bitmap that is named otherwise.   *)
DetectionIsStable ==
    \A file \in Files :
        disk[file].type # "BMP" \/ Suffix[file] = "BMP" =>
            Detected(freeImageFormats, file) = Detected(Known, file)

(* A handler that has a format offers what the format admits; it can write a  *)
(* file just if it can rotate it.                                             *)
OptionsFit ==
    /\ cachedFormat # "" =>
          /\ "Readable" \in options <=> formatReadable(cachedFormat)
          /\ "Wirteable" \in options <=> formatWriteable(cachedFormat)
    /\ "Wirteable" \in options <=> "Rotatable" \in options
    /\ fileName = NoFile => options = {}

(* The image kept is the one of the file, as stored or upright, until someone *)
(* writes to the file: rotateImageFile and saveImage do not take it back.     *)
CacheIsOfTheFile ==
    cachedImage # NoImage =>
        /\ fileName # NoFile
        /\ written \/ cachedImage \in {disk[fileName].picture, Upright(disk[fileName])}

(* A file of a format that Qt rotates, when it is rotated at all, is then     *)
(* seen turned by just the angle: the turn that EXIF asked for is made part   *)
(* of the picture, if FreeImage can tell it.                                  *)
RotatedAsAsked ==
    \A file \in Files, angle \in Angles :
        /\ rotateImageFile(file, angle)
        /\ Detected(freeImageFormats, file) \subseteq QtRotatableFormats
        /\ FreeImage \/ disk[file].turn = 0
        => \/ disk'[file] \in {disk[file], Nothing}
           \/ Upright(disk'[file]) = Turned(Upright(disk[file]), angle \div 90)
RotationsAreRight == [][RotatedAsAsked]_vars
=============================================================================
