--------------------------- MODULE MCFileTransfer ---------------------------
(* FileTransfer with ints of four bits and two bytes.  The file sizes of   *)
(* the configuration are those around every limit: none, one byte, the     *)
(* largest sendfile, the largest int, and beyond the range of an int on    *)
(* either side.                                                            *)
EXTENDS FileTransfer
=============================================================================
