----------------------------- MODULE MCElfDesc -----------------------------
(***************************************************************************)
(* A small instance of ElfDesc.  "ar" holds a symbol table, an ELF file of *)
(* odd size, a text with a BSD extended name, the archive "inner", one     *)
(* that is cut off, an empty member, and an ELF file of a bad class;       *)
(* "inner" holds one ELF file, of even size up to its end.                 *)
(* Offsets are as ar(1) writes them: headers at even offsets.              *)
(***************************************************************************)
EXTENDS ElfDesc

MCKind == [o \in Objs |->
  CASE o \in {"ar", "inner"} -> "ar" [] o \in {"obj", "odd"} -> "elf"
    [] o = "bad" -> "badelf" [] o = "bar" -> "badar" [] o = "dir" -> "dir"
    [] OTHER -> "data"]

\* 8: "/", 4 bytes; 72: "odd", 65; 198: "text", name of 4, 3 bytes of text;
\* 266: "inner", 132; 458: "bar", 64;
\* 582: an empty member; 642: "bad", 64
MCSize == [o \in Objs |->
  CASE o = "ar" -> 766 [] o = "inner" -> 132 [] o = "odd" -> 65 [] OTHER -> 64]

MCFirst == [o \in Objs |-> IF o = "ar" THEN 72 ELSE 8]

MCHdr == [o \in Objs |->
  CASE o = "ar" ->
       [n \in {8, 72, 198, 266, 458, 582, 642} |->
          CASE n = 8   -> [len |-> 4, skip |-> 0, obj |-> "text"]
            [] n = 72  -> [len |-> 65, skip |-> 0, obj |-> "odd"]
            [] n = 198 -> [len |-> 7, skip |-> 4, obj |-> "text"]
            [] n = 266 -> [len |-> 132, skip |-> 0, obj |-> "inner"]
            [] n = 458 -> [len |-> 64, skip |-> 0, obj |-> "bar"]
            [] n = 582 -> [len |-> 0, skip |-> 0, obj |-> "text"]
            [] n = 642 -> [len |-> 64, skip |-> 0, obj |-> "bad"]]
    [] o = "inner" -> [n \in {8} |-> [len |-> 64, skip |-> 0, obj |-> "obj"]]
    [] OTHER -> <<>>]

MCFileObj == [fd \in Fds |-> CASE fd = 3 -> "ar" [] fd = 4 -> "obj" [] OTHER -> "bar"]
=============================================================================
