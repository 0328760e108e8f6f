---------------------------- MODULE MCElfUpdate ----------------------------
(***************************************************************************)
(* Small instances of ElfUpdate.  The file that is there has its section   *)
(* header table between its sections, as other linkers may place it, a     *)
(* program header, a section of 3 units that ends at an odd offset, one of *)
(* 1 unit, whose alignment is given as 0, behind the table; a fourth       *)
(* section needs extended numbering, as do two program headers.            *)
(***************************************************************************)
EXTENDS ElfUpdate

\* Units 0..16: header 0, table 2, fill 3, section 4, fill 7, shdrs 8, section 14
Linked ==
  LET scn(type, align, off, size) ==
        [type |-> type, align |-> align, off |-> off, size |-> size, info |-> 0]
  IN Header("ehdr", [phoff |-> 2, shoff |-> 8, phnum |-> 1, shnum |-> 3], EhdrSize)
     \o <<Ph("old"), Fill, <<"a", 1>>, <<"a", 2>>, <<"a", 3>>, Fill>>
     \o Header("shdr", scn("null", 0, 0, 0), ShdrSize)
     \o Header("shdr", scn("progbits", 2, 4, 3), ShdrSize)
     \o Header("shdr", scn("progbits", 0, 14, 1), ShdrSize)
     \o <<<<"b", 1>>>>

MCFiles == {Linked}
MCBuffers == {[align |-> 2, units |-> <<<<"c", 1>>>>],
              [align |-> 1, units |-> <<<<"d", 1>>, <<"d", 2>>>>]}
=============================================================================
