------------------------------- MODULE MC_Isa -------------------------------
(***************************************************************************)
(* The sweep of DecodeContract from the encodings the repository's tests      *)
(* decode, which came out of an assembler and cover every operation.       *)
(***************************************************************************)
EXTENDS DecodeContract

\* Encodings that tests/{integer,memory,fp_decode}_*.rs expect to decode.
Allocated == {
    <<\h0800, \h0000>>, <<\h085f, \h7c20>>, <<\h089f, \hfc20>>, <<\h0ae6, \h0ca4>>,
    <<\h0c40, \ha082>>, <<\h0cc4, \h7062>>, <<\h0e09, \h20e6>>, <<\h0e0b, \h3d6a>>,
    <<\h0e0e, \h2dee>>, <<\h0e28, \h84e6>>, <<\h1000, \h0040>>, <<\h1280, \h0001>>,
    <<\h1385, \h24a4>>, <<\h1400, \h0002>>, <<\h1800, \h0065>>, <<\h1ac5, \h0c83>>,
    <<\h1ac5, \h2483>>, <<\h1b06, \h9ca4>>, <<\h1e03, \hedcd>>, <<\h1e18, \he549>>,
    <<\h1e20, \h1000>>, <<\h1e20, \h20a8>>, <<\h1e20, \h41cd>>, <<\h1e22, \h0293>>,
    <<\h1e22, \h1425>>, <<\h1e22, \h2820>>, <<\h1e22, \hc020>>, <<\h1e23, \h4841>>,
    <<\h1e23, \h8841>>, <<\h1e23, \hbc41>>, <<\h1e24, \h40c5>>, <<\h1e26, \h039b>>,
    <<\h1e27, \h03dd>>, <<\h1e28, \h08e6>>, <<\h1e60, \h20f8>>, <<\h1e60, \hc107>>,
    <<\h1e62, \h1820>>, <<\h1e63, \h7841>>, <<\h1e64, \ha47a>>, <<\h1e65, \h3883>>,
    <<\h1e68, \h020f>>, <<\h1e79, \h0107>>, <<\h1f07, \ha0c5>>, <<\h1f23, \h9041>>,
    <<\h1f43, \h1041>>, <<\h1f63, \h1041>>, <<\h287f, \h0440>>, <<\h2900, \h8440>>,
    <<\h2b45, \h1c83>>, <<\h2cc1, \h0861>>, <<\h3301, \h0862>>, <<\h35ff, \hff41>>,
    <<\h362f, \hff60>>, <<\h3850, \h00a4>>, <<\h3862, \h7820>>, <<\h38c0, \h1ca4>>,
    <<\h3900, \h0420>>, <<\h3a05, \h0083>>, <<\h3a45, \h1843>>, <<\h3c82, \h0e51>>,
    <<\h3cc1, \h060f>>, <<\h3cf8, \hdaf6>>, <<\h3d40, \h0107>>, <<\h4c00, \h7020>>,
    <<\h4c00, \h8882>>, <<\h4c40, \h0335>>, <<\h4c40, \h4691>>, <<\h4cdf, \h7020>>,
    <<\h4cdf, \h88e5>>, <<\h4e01, \h0ca4>>, <<\h4e0c, \h116a>>, <<\h4e0d, \h398b>>,
    <<\h4e0f, \h1e30>>, <<\h4e14, \h0528>>, <<\h4e16, \h5ab4>>, <<\h4e1c, \h6b7a>>,
    <<\h4e20, \h09ac>>, <<\h4e20, \h19ee>>, <<\h4e20, \h596a>>, <<\h4e22, \h1c20>>,
    <<\h4e31, \hb8a4>>, <<\h4e37, \h3ed5>>, <<\h4e53, \h1a51>>, <<\h4e60, \hb928>>,
    <<\h4e6b, \h1d49>>, <<\h4e90, \h79ee>>, <<\h4e99, \h2b17>>, <<\h4ea5, \h1c83>>,
    <<\h4eb4, \h3672>>, <<\h4eee, \h1dac>>, <<\h4f00, \h04e1>>, <<\h4f0d, \h04a4>>,
    <<\h4f27, \h5420>>, <<\h5140, \h0c41>>, <<\h5200, \h00e6>>, <<\h5300, \h1c20>>,
    <<\h5400, \h0040>>, <<\h5a89, \hb107>>, <<\h5ac0, \h0462>>, <<\h5ac0, \h0928>>,
    <<\h5ac0, \h15ac>>, <<\h68c0, \h0440>>, <<\h69c0, \h0440>>, <<\h6d01, \h77dc>>,
    <<\h6e02, \h2820>>, <<\h6e18, \h0672>>, <<\h6e20, \h5b38>>, <<\h6e28, \h1ce6>>,
    <<\h6e2b, \h8d49>>, <<\h6e30, \ha862>>, <<\h6e31, \ha820>>, <<\h6e65, \h8483>>,
    <<\h6e71, \h1e0f>>, <<\h6e71, \h3e0f>>, <<\h6ea0, \hb8e6>>, <<\h6eae, \h35ac>>,
    <<\h6eb4, \h1e72>>, <<\h6ef7, \h1ed5>>, <<\h6f00, \h8462>>, <<\h6f1b, \h0462>>,
    <<\h7204, \hcc62>>, <<\h8823, \h0440>>, <<\h8a02, \h0020>>, <<\h8b21, \h6c1f>>,
    <<\h9000, \h0000>>, <<\h9100, \h43ff>>, <<\h9340, \h7c62>>, <<\h97ff, \hffff>>,
    <<\h9a83, \h1041>>, <<\h9a83, \h5462>>, <<\h9ac2, \h0820>>, <<\h9ac2, \h2020>>,
    <<\h9ac8, \h28e6>>, <<\h9acb, \h2d49>>, <<\h9b02, \h0c20>>, <<\h9b22, \h0c20>>,
    <<\h9b26, \h9ca4>>, <<\h9b42, \h0c20>>, <<\h9baa, \h2d28>>, <<\h9bae, \hbdac>>,
    <<\h9bc5, \h0c83>>, <<\h9e25, \h0149>>, <<\h9eae, \h0107>>, <<\h9eaf, \h00c5>>,
    <<\ha8bf, \h0440>>, <<\ha9bf, \h7bfd>>, <<\haa01, \h03e0>>, <<\haa21, \h03e0>>,
    <<\had40, \h0440>>, <<\had81, \h14c4>>, <<\hb200, \hf0a4>>, <<\hb4ff, \hffa0>>,
    <<\hb747, \hff02>>, <<\hbd00, \h098b>>, <<\hc87f, \h0440>>, <<\hca0f, \h01cd>>,
    <<\hca2c, \h056a>>, <<\hcb03, \h03e2>>, <<\hcb21, \habe0>>, <<\hd2a2, \h4680>>,
    <<\hd400, \h0001>>, <<\hd400, \h0022>>, <<\hd400, \h0043>>, <<\hd43b, \hd5a0>>,
    <<\hd440, \h0000>>, <<\hd500, \h41bf>>, <<\hd503, \h201f>>, <<\hd503, \h203f>>,
    <<\hd503, \h205f>>, <<\hd503, \h207f>>, <<\hd503, \h209f>>, <<\hd503, \h355f>>,
    <<\hd503, \h3a9f>>, <<\hd503, \h3bbf>>, <<\hd503, \h3fdf>>, <<\hd538, \h0003>>,
    <<\hd61f, \h0000>>, <<\hd63f, \h0020>>, <<\hd65f, \h00a0>>, <<\hd69f, \h03e0>>,
    <<\hd8ff, \hff60>>, <<\hda01, \h03e0>>, <<\hda8c, \hc56a>>, <<\hdac0, \h0020>>,
    <<\hdac0, \h08a4>>, <<\hdac0, \h116a>>, <<\hf2f7, \hdde2>>, <<\hf810, \h0462>>,
    <<\hf840, \h8420>>, <<\hf880, \h8000>>, <<\hf8a2, \h7825>>, <<\hfa41, \h000f>>,
    <<\hfa5f, \he880>>}

\* Encodings those tests expect to fault.
Faulting == {
    <<\h0820, \h0020>>, <<\h08a0, \h7c20>>, <<\h0a02, \h8020>>, <<\h0b02, \h8020>>,
    <<\h0e20, \h2800>>, <<\h0e22, \he020>>, <<\h1ac2, \h4020>>, <<\h1b22, \h0c20>>,
    <<\h4820, \h7c22>>, <<\h4e28, \h5800>>, <<\h5400, \h0050>>, <<\h5ac0, \h0ce6>>,
    <<\h5e00, \h0000>>, <<\h5e28, \h0800>>, <<\h6840, \h0440>>, <<\h6900, \h0440>>,
    <<\h9180, \h0000>>, <<\h9200, \hf400>>, <<\h93e0, \h0400>>, <<\h9ac1, \h1000>>,
    <<\hba00, \h0400>>, <<\hc8a0, \h7c20>>, <<\hd503, \h307f>>, <<\hd508, \h831f>>,
    <<\hd65f, \h0bff>>, <<\hdac1, \h0020>>, <<\hf820, \h1020>>, <<\hf820, \h8020>>,
    <<\hf8c0, \h0020>>, <<\hfa41, \h001f>>}

TestedWords == {[hi |-> s[1], lo |-> s[2]] : s \in Allocated \cup Faulting}
=============================================================================
