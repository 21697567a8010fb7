------------------------ MODULE MCThumbnailPipeline ------------------------
(* Small instances of ThumbnailPipeline for TLC. *)
EXTENDS ThumbnailPipeline

CONSTANTS remote, iiif, cog, pmtiles, pdf, blank, rendition

AllUrls == Sources \cup {rendition}
KindOf == [s \in Sources |-> CASE s = remote -> "remote" [] s = iiif -> "iiif" [] s = cog -> "cog"
                               [] s \in {pmtiles, blank} -> "pmtiles" [] OTHER -> "pdf"]
StandardOf == [s \in Sources |-> IF s = remote THEN rendition ELSE s]
SomeChanges == {<<remote, iiif>>, <<pmtiles, cog>>, <<pdf, None>>, <<blank, pmtiles>>}
=============================================================================
