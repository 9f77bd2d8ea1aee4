--------------------------- MODULE MCAstcEncoder ---------------------------
(* Two images that share a context, of two mips and one: a mip follows a mip, *)
(* an image follows a failed image, and the pool serves up to three runs.     *)
EXTENDS AstcEncoder

MCMipCount == <<2, 1>>
MCBlockOf == <<"6x6", "6x6">>
=============================================================================
