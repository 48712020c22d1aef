------------------------------ MODULE Partition ------------------------------
(***************************************************************************)
(* How es3 cuts things up: a file into blocks to compress                  *)
(* (es3/compressor.cpp), a file into parts and the parts into pumps        *)
(* (es3/uploader.cpp), an object into segments (es3/downloader.cpp).       *)
(* Bytes are counted from 0, pieces from 1.                                *)
(***************************************************************************)
EXTENDS Integers

AtMost(n, limit) == IF n > limit THEN limit ELSE n

\* Pieces of at most unit bytes.
NumPieces(size, unit) == size \div unit + (IF size % unit = 0 THEN 0 ELSE 1)

\* The n-th of them, all unit bytes long except perhaps the last.
offset(n, unit) == unit * (n - 1)
length(n, size, unit) == AtMost(size - offset(n, unit), unit)
Piece(n, size, unit) ==
  offset(n, unit)..(offset(n, unit) + length(n, size, unit) - 1)

\* start_upload and file_downloader: an empty file has one part, an empty object
\* one segment.
number_of_segments(size, segment_size) ==
  IF size = 0 THEN 1 ELSE NumPieces(size, segment_size)

\* start_upload: the parts one pump reads.  It asks for as many segments at once,
\* so it gets half of those there are at the most.
num_per_pump(number, io_capability, max_in_flight) ==
  AtMost(number \div io_capability + 1, max_in_flight \div 2)

\* file_compressor: the size of a block, for a file of more than minimal bytes.
block_sz(file_sz, minimal, cpu_capability) ==
  file_sz \div AtMost(file_sz \div minimal, cpu_capability)
=============================================================================
