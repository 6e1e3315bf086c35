-------------------------------- MODULE MCMedia --------------------------------
(* Instance for TLC of the modules about media files: downloads that publish    *)
(* one name, upload-album, download-album and export.  They share no state      *)
(* here, so a behaviour runs one of them and leaves the others as they began.   *)
EXTENDS MediaDestination, AlbumUpload, AlbumDownload, Archive, TLC

VARIABLE which \* the one that runs

mediaVars == <<vars, uploadVars, downloadVars, archVars, which>>

\* The one initial state a component has while another one runs.
NoDownloads ==
  /\ files = << >> /\ dir = [n \in Names |-> NoFile]
  /\ over = [d \in Downloads |-> FALSE]
NoUpload   == source = [i \in Items |-> CHOOSE c \in Contents : TRUE]
NoAlbum    ==
  /\ hasMedia = {} /\ disk = [n \in AlbumNames |-> Absent]
  /\ sentName = [i \in AlbumItems |-> CHOOSE n \in AlbumNames : TRUE]
NoArchive  ==
  /\ named = [m \in Messages |-> NoMedia] /\ stored = [f \in Files |-> Gone]
  /\ out = Empty /\ man = Empty /\ hashed = FALSE

MCInit ==
  /\ which \in {"destination", "upload", "album", "archive"}
  /\ which # "destination" => NoDownloads
  /\ which # "upload" => NoUpload
  /\ which # "album" => NoAlbum
  /\ which # "archive" => NoArchive
  /\ Init /\ UploadInit /\ DownloadInit /\ ArchiveInit

MCNext ==
  /\ UNCHANGED which
  /\ \/ which = "destination" /\ Next /\ UNCHANGED <<uploadVars, downloadVars, archVars>>
     \/ which = "upload" /\ UploadNext /\ UNCHANGED <<vars, downloadVars, archVars>>
     \/ which = "album" /\ DownloadNext /\ UNCHANGED <<vars, uploadVars, archVars>>
     \/ which = "archive" /\ ArchiveNext /\ UNCHANGED <<vars, uploadVars, downloadVars>>

MCSpec == MCInit /\ [][MCNext]_mediaVars

\* The downloads of a name and the messages of an export have the same names; the
\* files of an archive are told apart by nothing but what they hold.
DownloadSymmetry == Permutations(Downloads) \cup Permutations(Files)
================================================================================
