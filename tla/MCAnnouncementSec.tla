------------------------- MODULE MCAnnouncementSec -------------------------
(* Small instances of AnnouncementSec for TLC. *)
EXTENDS AnnouncementSec

CONSTANTS scheduled, manual

BothRunners == {scheduled, manual}

\* Three old pages and a recent segment after them; a directory that leaves
\* out day 3; a company whose recent segment is everything.
OldPages == {{0}, {1}, {2, 3}}
HolePages == {{0}, {1, 2}}
ManyListings == {[files |-> OldPages, recentMin |-> 4],
                 [files |-> HolePages, recentMin |-> 4],
                 [files |-> OldPages, recentMin |-> 2]}
SmallListing == {[files |-> {}, recentMin |-> 0],
                 [files |-> OldPages, recentMin |-> 4],
                 [files |-> OldPages, recentMin |-> 2]}

SomeGone == {{}, {{0}}, {{1}}, {{1}, {2, 3}}}
NoneGone == {{}}
=============================================================================
