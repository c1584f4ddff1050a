---------------------------- MODULE MCMetricsAPI ----------------------------
(***************************************************************************)
(* Small instances of MetricsAPI for TLC.                                  *)
(***************************************************************************)
EXTENDS MetricsAPI

Doc(uuid, gpu_id, timestamp) ==
  [uuid |-> uuid, gpu_id |-> gpu_id, timestamp |-> timestamp]

\* GPU 1 is also 11, GPU 2 is 12; one document of GPU 1 lacks its uuid, one
\* GPU has only a uuid, two documents of GPU 1 have the same timestamp.
MCDocuments ==
  {Doc(11, 1, 1), Doc(11, 1, 2), Doc(None, 1, 2), Doc(12, 2, 3), Doc(13, None, 1)}
MCAsked == {None, 1, 11}

\* Absent, one, one that makes (page - 1) * limit overflow four bits, too big.
MCLimitTexts == {<<>>, <<1>>, <<4>>, <<9>>}
MCPageTexts == {<<>>, <<2>>, <<3>>, <<0>>}
MCTimeTexts == {<<>>, <<2>>, <<-1>>}

=============================================================================
