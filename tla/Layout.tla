-------------------------------- MODULE Layout --------------------------------
(***************************************************************************)
(* The structures of a minidump (src/include/minidump/breakpad) as a       *)
(* 64-bit compiler lays them out.  The reader tells raw contexts apart by  *)
(* the size of their structure, refuses streams whose size is not that of  *)
(* their structures, and reads registers through whichever structure the   *)
(* flags of a context name.                                                *)
(*                                                                         *)
(* A structure is a sequence of fields [name, bytes, count, align]: arrays *)
(* have a count above 1.  Runs of fields of the same size which nobody     *)
(* looks at one by one are one field named after the first of them.        *)
(***************************************************************************)
EXTENDS Integers, Sequences

Aligned(n, a) == ((n + a - 1) \div a) * a

\* Where the k-th field ends.
EndOf(s, k) ==
  LET end[i \in 0 .. Len(s)] ==
        IF i = 0 THEN 0 ELSE Aligned(end[i - 1], s[i].align) + s[i].bytes * s[i].count
  IN  end[k]

\* The largest alignment of a field.
AlignOf(s) ==
  LET align[i \in 0 .. Len(s)] ==
        IF i = 0 THEN 1
        ELSE LET before == align[i - 1] IN IF s[i].align > before THEN s[i].align ELSE before
  IN  align[Len(s)]

SizeOf(s) == Aligned(EndOf(s, Len(s)), AlignOf(s))

\* The field of that name.
IndexOf(s, name) ==
  LET from[k \in DOMAIN s] == IF s[k].name = name THEN k ELSE from[k + 1] IN from[1]

OffsetOf(s, name) ==
  LET k == IndexOf(s, name) IN Aligned(EndOf(s, k - 1), s[k].align)

\* An array of integers of the given width; a structure; #pragma pack.
Ints(name, bytes, count) == [name |-> name, bytes |-> bytes, count |-> count, align |-> bytes]
Nested(name, s) == [name |-> name, bytes |-> SizeOf(s), count |-> 1, align |-> AlignOf(s)]
Packed(s, pack) == [k \in DOMAIN s |-> [s[k] EXCEPT !.align = IF @ > pack THEN pack ELSE @]]

\* uint128_struct is two 64-bit words.
Vectors(name, count) == Ints(name, 8, 2 * count)

-----------------------------------------------------------------------------
(***************************************************************************)
(* minidump_format.h.                                                      *)
(***************************************************************************)
MDLocationDescriptor == <<Ints("data_size", 4, 1), Ints("rva", 4, 1)>>

MDMemoryDescriptor ==
  <<Ints("start_of_memory_range", 8, 1), Nested("memory", MDLocationDescriptor)>>

MDVSFixedFileInfo == <<Ints("signature", 4, 13)>>

MDRawThread ==
  <<Ints("thread_id", 4, 4), Ints("teb", 8, 1), Nested("stack", MDMemoryDescriptor),
    Nested("thread_context", MDLocationDescriptor)>>

MDRawModule ==
  <<Ints("base_of_image", 8, 1), Ints("size_of_image", 4, 3), Ints("module_name_rva", 4, 1),
    Nested("version_info", MDVSFixedFileInfo), Nested("cv_record", MDLocationDescriptor),
    Nested("misc_record", MDLocationDescriptor), Ints("reserved0", 4, 4)>>

\* Without the padding behind reserved1.
MD_MODULE_SIZE == 108

MDException ==
  <<Ints("exception_code", 4, 2), Ints("exception_record", 8, 2), Ints("number_parameters", 4, 2),
    Ints("exception_information", 8, 15)>>

MDRawExceptionStream ==
  <<Ints("thread_id", 4, 2), Nested("exception_record", MDException),
    Nested("thread_context", MDLocationDescriptor)>>

\* A union: the largest of its members, aligned to the 64-bit words of one.
MDCPUInformation == <<Ints("x86_cpu_info", 8, 3)>>

MDRawSystemInfo ==
  <<Ints("processor_architecture", 2, 3), Ints("number_of_processors", 1, 2), Ints("major_version", 4, 5),
    Ints("suite_mask", 2, 2), Nested("cpu", MDCPUInformation)>>

-----------------------------------------------------------------------------
(***************************************************************************)
(* minidump_cpu_*.h.                                                       *)
(***************************************************************************)
MDXmmSaveArea32AMD64 ==
  <<Ints("control_word", 2, 2), Ints("tag_word", 1, 2), Ints("error_opcode", 2, 1), Ints("error_offset", 4, 1),
    Ints("error_selector", 2, 2), Ints("data_offset", 4, 1), Ints("data_selector", 2, 2), Ints("mx_csr", 4, 2),
    Vectors("float_registers", 8), Vectors("xmm_registers", 16), Ints("reserved4", 1, 96)>>

\* The other member of the union with flt_save, sse_registers, is as large.
MDRawContextAMD64 ==
  <<Ints("p1_home", 8, 6), Ints("context_flags", 4, 1), Ints("mx_csr", 4, 1), Ints("cs", 2, 6),
    Ints("eflags", 4, 1), Ints("dr0", 8, 6), Ints("rax", 8, 4), Ints("rsp", 8, 1), Ints("rbp", 8, 1),
    Ints("rsi", 8, 10), Ints("rip", 8, 1), Nested("flt_save", MDXmmSaveArea32AMD64),
    Vectors("vector_register", 26), Ints("vector_control", 8, 6)>>

MDFloatingSaveAreaARM64 == <<Vectors("regs", 32), Ints("fpcr", 4, 2)>>

MDRawContextARM64 ==
  <<Ints("context_flags", 4, 1), Ints("cpsr", 4, 1), Ints("iregs", 8, 33),
    Nested("float_save", MDFloatingSaveAreaARM64),
    Ints("bcr", 4, 8), Ints("bvr", 8, 8), Ints("wcr", 4, 2), Ints("wvr", 8, 2)>>

MDFloatingSaveAreaARM64_Old == <<Ints("fpsr", 4, 2), Vectors("regs", 32)>>

MDRawContextARM64_Old ==
  Packed(<<Ints("context_flags", 8, 1), Ints("iregs", 8, 33), Ints("cpsr", 4, 1),
           Nested("float_save", MDFloatingSaveAreaARM64_Old)>>, 4)

MDFloatingSaveAreaARM == <<Ints("fpscr", 8, 1), Ints("regs", 8, 32), Ints("extra", 4, 8)>>

MDRawContextARM ==
  <<Ints("context_flags", 4, 1), Ints("iregs", 4, 16), Ints("cpsr", 4, 1),
    Nested("float_save", MDFloatingSaveAreaARM)>>

MDFloatingSaveAreaX86 ==
  <<Ints("control_word", 4, 7), Ints("register_area", 1, 80), Ints("cr0_npx_state", 4, 1)>>

MDRawContextX86 ==
  <<Ints("context_flags", 4, 1), Ints("dr0", 4, 6), Nested("float_save", MDFloatingSaveAreaX86),
    Ints("gs", 4, 4), Ints("edi", 4, 6), Ints("ebp", 4, 1), Ints("eip", 4, 1), Ints("cs", 4, 2),
    Ints("esp", 4, 1), Ints("ss", 4, 1), Ints("extended_registers", 1, 512)>>

MDFloatingSaveAreaPPC == <<Ints("fpregs", 8, 32), Ints("fpscr_pad", 4, 2)>>

MDVectorSaveAreaPPC ==
  <<Vectors("save_vr", 32), Vectors("save_vscr", 1), Ints("save_pad5", 4, 4), Ints("save_vrvalid", 4, 1),
    Ints("save_pad6", 4, 7)>>

MDRawContextPPC64 ==
  <<Ints("context_flags", 8, 1), Ints("srr0", 8, 2), Ints("gpr", 8, 32), Ints("cr", 8, 5),
    Nested("float_save", MDFloatingSaveAreaPPC), Nested("vector_save", MDVectorSaveAreaPPC)>>

AMD64Bytes == SizeOf(MDRawContextAMD64)
PPC64Bytes == SizeOf(MDRawContextPPC64)
OldARM64Bytes == SizeOf(MDRawContextARM64_Old)

-----------------------------------------------------------------------------
(***************************************************************************)
(* What the reader does with the sizes.                                    *)
(***************************************************************************)
\* The raw context that MinidumpContext::Read takes a location of this size for.
Selected(size) ==
  IF size = AMD64Bytes THEN "amd64"
  ELSE IF size = PPC64Bytes THEN "ppc64"
  ELSE IF size = OldARM64Bytes THEN "arm64old"
  ELSE "other"

CountBytes == 4

\* The item sizes of the lists, and the sizes of the other streams.
ItemBytes ==
  [thread |-> SizeOf(MDRawThread), module |-> MD_MODULE_SIZE, memory |-> SizeOf(MDMemoryDescriptor)]
SingleBytes == [exception |-> SizeOf(MDRawExceptionStream), system |-> SizeOf(MDRawSystemInfo)]

\* ReadStream and ReadStreamSingle: whether the size of a stream is that of its
\* contents, "padded" with 4 bytes, "tiny" without room for a count, or "wrong".
SizeClass(type, size, count) ==
  IF type \in DOMAIN ItemBytes
  THEN LET whole == CountBytes + count * ItemBytes[type] IN
       IF size < CountBytes THEN "tiny"
       ELSE IF size = whole THEN "exact" ELSE IF size = whole + 4 THEN "padded" ELSE "wrong"
  ELSE IF type \in DOMAIN SingleBytes /\ size = SingleBytes[type] THEN "exact" ELSE "wrong"

(***************************************************************************)
(* Registers.  A register lies at an offset of a raw context, by the CPU   *)
(* the flags of the context name.                                          *)
(***************************************************************************)
Structure ==
  [x86 |-> MDRawContextX86, amd64 |-> MDRawContextAMD64, arm |-> MDRawContextARM, arm64 |-> MDRawContextARM64]

WordBytes == [x86 |-> 4, amd64 |-> 8, arm |-> 4, arm64 |-> 8]

\* The cases of GetInstructionPointer, GetStackPointer and GetFramePointer.
RegisterField ==
  [x86 |-> [ip |-> "eip", sp |-> "esp", fp |-> "ebp"],
   amd64 |-> [ip |-> "rip", sp |-> "rsp", fp |-> "rbp"],
   arm |-> [ip |-> "iregs", sp |-> "iregs", fp |-> "iregs"],
   arm64 |-> [ip |-> "iregs", sp |-> "iregs", fp |-> "iregs"]]

\* MD_CONTEXT_ARM_REG_*, MD_CONTEXT_ARM64_REG_*.
RegisterNumber == [arm |-> [ip |-> 15, sp |-> 13, fp |-> 11], arm64 |-> [ip |-> 32, sp |-> 31, fp |-> 29]]

RegisterAt ==
  [cpu \in DOMAIN Structure |-> [reg \in {"ip", "sp", "fp"} |->
     OffsetOf(Structure[cpu], RegisterField[cpu][reg])
       + (IF cpu \in DOMAIN RegisterNumber THEN WordBytes[cpu] * RegisterNumber[cpu][reg] ELSE 0)]]

\* The field at an offset.
FieldAt(s, offset) ==
  LET from[k \in DOMAIN s] == IF offset < EndOf(s, k) THEN s[k].name ELSE from[k + 1] IN from[1]

\* ConvertOldARM64Context copies fields to the fields of the same name, which lie
\* elsewhere: where a byte of the new structure comes from.
BeforeConversion(offset) ==
  LET field == FieldAt(MDRawContextARM64, offset) IN
  OffsetOf(MDRawContextARM64_Old, field) + (offset - OffsetOf(MDRawContextARM64, field))

OldRegisterAt == [reg \in {"ip", "sp", "fp"} |-> BeforeConversion(RegisterAt["arm64"][reg])]

\* The registers lie inside the raw contexts that are allocated, also under the
\* flags of another CPU; those of an old ARM64 context are integer registers.
ASSUME LayoutAssumption ==
  \A register \in {"ip", "sp", "fp"} :
    /\ \A cpu \in DOMAIN Structure : RegisterAt[cpu][register] + WordBytes[cpu] <= AMD64Bytes
    /\ OldRegisterAt[register] + WordBytes["arm64"] <= OldARM64Bytes
    /\ FieldAt(MDRawContextARM64_Old, OldRegisterAt[register]) = "iregs"
=============================================================================
