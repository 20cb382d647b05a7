----------------------------- MODULE CaptureDate ----------------------------
(***************************************************************************)
(* The date a file is filed under: DateOf of internal/exifdate, with the   *)
(* walk over the atoms of a video that findAtom makes for a moov and then, *)
(* inside it, for a mvhd.  Headers are whatever the card holds.  Offsets   *)
(* are int64 and wrap; the width is a parameter, and sizes and times are   *)
(* scaled to it.                                                           *)
(***************************************************************************)
EXTENDS Integers

CONSTANTS
    Half,           \* int64 is -Half .. Half - 1
    Max32,          \* the largest uint32
    Second,         \* a second in the unit of time.Duration
    FileSizes,
    Extended,       \* what an extended size may say, as an int64
    Times           \* what a mvhd may say, of 32 or of 64 bits

ASSUME WidthTyped ==
    /\ {Half, Max32, Second} \subseteq Nat \ {0}
    /\ FileSizes \subseteq 0 .. Half - 16 /\ Times \subseteq 0 .. 2 * Half - 1
    /\ Extended \subseteq -Half .. Half - 1
    /\ Max32 * Second < Half /\ 8 <= Max32

VARIABLES
    kind,           \* by its extension: "still", "video" or "other"
    size,           \* of the file
    at,             \* "open", "moov", "mvhd", "head" or "done"
    off, end,       \* of findAtom; off is also readMvhd's argument
    moov,           \* payload start and end of the moov found (history)
    hdr, secs,      \* where the mvhd began, and what it said (histories)
    date,           \* since 1904, when it is the video's
    source          \* where the date comes from; "none" before

dateVars == <<kind, size, at, off, end, moov, hdr, secs, date, source>>

Int64(i) == ((i + Half) % (2 * Half)) - Half

DateInit ==
    /\ kind \in {"still", "video", "other"}
    /\ size \in FileSizes
    /\ at = "open"
    /\ off = 0 /\ end = 0 /\ moov = <<0, 0>> /\ hdr = 0 /\ secs = 0
    /\ date = 0 /\ source = "none"

\* ReadAt reads all it was asked for, or fails.
Readable(o, count) == o >= 0 /\ o + count <= size

\* The file's mtime: no capture date, or nothing that could be parsed.
FallBack ==
    /\ at' = "done"
    /\ source' = "mtime"
    /\ UNCHANGED <<kind, size, off, end, moov, hdr, secs, date>>

DateOf ==
    /\ at = "open"
    /\ \/ FallBack
       \/ /\ kind = "still"
          /\ at' = "done" /\ source' = "exif"
          /\ UNCHANGED <<kind, size, off, end, moov, hdr, secs, date>>
       \/ /\ kind = "video"
          /\ at' = "moov" /\ off' = 0 /\ end' = size
          /\ UNCHANGED <<kind, size, moov, hdr, secs, date, source>>

-----------------------------------------------------------------------------
(* findAtom.                                                               *)

Scanning == at \in {"moov", "mvhd"}

\* The loop's condition, in its own arithmetic.
InRegion == Int64(off + 8) <= end

\* An atom's size and the length of its header: a size of 0 is the rest of the
\* region, one of 1 is followed by another of 64 bits.
Header(length, headerLen) ==
    \/ /\ length \in 2 .. Max32 /\ headerLen = 8
    \/ /\ length = Int64(end - off) /\ headerLen = 8
    \/ /\ length \in Extended /\ headerLen = 16 /\ Readable(off + 8, 8)

\* Mutant of Malformed: sizes are believed.
MalformedNever(length, headerLen) == FALSE

Malformed(length, headerLen) == length < headerLen

\* The region is at its end, or a header cannot be read.
NotFound ==
    /\ Scanning
    /\ FallBack

OtherAtom(length) ==
    /\ off' = Int64(off + length)
    /\ UNCHANGED <<kind, size, at, end, moov, hdr, secs, date, source>>

\* Mutant of FoundMoov: the mvhd is looked for in the whole file.
FoundMoovAnywhere(length, headerLen) ==
    /\ at = "moov" /\ at' = "mvhd"
    /\ moov' = <<Int64(off + headerLen), Int64(off + length)>>
    /\ off' = 0 /\ end' = size
    /\ UNCHANGED <<kind, size, hdr, secs, date, source>>

FoundMoov(length, headerLen) ==
    /\ at = "moov" /\ at' = "mvhd"
    /\ moov' = <<Int64(off + headerLen), Int64(off + length)>>
    /\ off' = moov'[1] /\ end' = moov'[2]
    /\ UNCHANGED <<kind, size, hdr, secs, date, source>>

FoundMvhd(headerLen) ==
    /\ at = "mvhd" /\ at' = "head"
    /\ hdr' = off
    /\ off' = Int64(off + headerLen)
    /\ UNCHANGED <<kind, size, end, moov, secs, date, source>>

FindAtom ==
    /\ Scanning
    /\ InRegion
    /\ Readable(off, 8)
    /\ \E length \in -Half .. Half - 1, headerLen \in {8, 16} :
          /\ Header(length, headerLen)
          /\ IF Malformed(length, headerLen) THEN FallBack
             ELSE \/ OtherAtom(length)
                  \/ FoundMoov(length, headerLen)
                  \/ FoundMvhd(headerLen)

-----------------------------------------------------------------------------
\* readMvhd.  A time of 0, or one that cannot be read, is no date; seconds of
\* 64 bits wrap as they become a Duration.
ReadMvhd ==
    /\ at = "head"
    /\ \/ FallBack
       \/ \E width \in {4, 8} :
             /\ Readable(off, 4) /\ Readable(off + 4, width)
             /\ secs' \in Times \ {0}
             /\ width = 4 => secs' <= Max32
             /\ date' = Int64(Int64(secs') * Second)
             /\ at' = "done" /\ source' = "mp4"
             /\ UNCHANGED <<kind, size, off, end, moov, hdr>>

DateNext == DateOf \/ NotFound \/ FindAtom \/ ReadMvhd

-----------------------------------------------------------------------------
(* Properties.                                                             *)

\* A date said to be the video's was read from a mvhd whose header lies in the
\* moov that was found and in the file, and is the one written there, as far as
\* a Duration can hold it, whatever sizes the headers before it claimed.
DateIsTheVideos ==
    source = "mp4" =>
        /\ kind = "video"
        /\ moov[1] <= hdr /\ hdr + 8 <= moov[2] /\ hdr + 8 <= size
        /\ secs # 0
        /\ secs * Second < Half => date = secs * Second

\* The walk ends, with headers that go back, stand still or overflow as well.
DateIsFound == Scanning ~> at = "done"

=============================================================================
