---- MODULE MCHostPrograms ----
(* Small files: one of two words, the last only partly filled; one with bytes
   for the flash, behind RESET_ADDRESS, and for memory, and a last section that
   lies behind an empty one; one that would overwrite the configuration. *)
EXTENDS HostPrograms

Phdr(m, start, filesz, memsz, ones) ==
  [mem |-> m, start |-> start, filesz |-> filesz, memsz |-> memsz, ones |-> ones]
File(phdrs) == [phdrs |-> phdrs]

MCImages == {
  File(<<Phdr("ram", 0, 7, 7, {})>>),
  File(<<Phdr("flash", 40, 10, 10, 0 .. 7), Phdr("ram", 0, 4, 4, {}),
         Phdr("sdram", 0, 0, 4, {}), Phdr("ram", 4, 4, 4, {})>>),
  File(<<Phdr("flash", 16, 4, 4, {})>>)}
====
