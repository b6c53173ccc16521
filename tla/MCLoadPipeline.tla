--------------------------- MODULE MCLoadPipeline ---------------------------
(***************************************************************************)
(* Three streams for two partitions, with an empty batch, an oversized      *)
(* value and a null key among their batches.                                *)
(***************************************************************************)
EXTENDS LoadPipeline

Row(p) == [part |-> p, oversized |-> FALSE, null |-> FALSE]

MCFeed == << << <<Row(1), Row(2)>>, <<Row(1)>> >>,
             << <<Row(1), [Row(1) EXCEPT !.null = TRUE]>>, <<>> >>,
             << <<Row(2)>>, <<[Row(1) EXCEPT !.oversized = TRUE]>> >> >>

Plain == [mode |-> "load", source |-> "bq", table |-> "dotted", output |-> TRUE,
          block_size |-> TRUE, partitions |-> TRUE, max_rows |-> NoLimit,
          key_column |-> "bytes", value_column |-> "bytes",
          protobuf_message |-> "off", protobuf_package |-> TRUE, protobuf_descriptor |-> {}]

\* Command lines that come to read their source.
MCLoads == {Plain,
            [Plain EXCEPT !.max_rows = 3],
            [Plain EXCEPT !.protobuf_message = "found", !.protobuf_descriptor = {"gs_uri"},
                          !.key_column = "integer", !.source = "config_bigquery"],
            [Plain EXCEPT !.source = "csv", !.max_rows = 1],
            [Plain EXCEPT !.mode = "benchmark", !.max_rows = 3]}

\* Command lines that are refused.
MCRefused == {[Plain EXCEPT !.block_size = FALSE],
              [Plain EXCEPT !.mode = "dry_run", !.table = "malformed"],
              [Plain EXCEPT !.source = "config_empty_csv"],
              [Plain EXCEPT !.output = FALSE],
              [Plain EXCEPT !.value_column = "absent"],
              [Plain EXCEPT !.mode = "benchmark", !.protobuf_message = "found",
                            !.protobuf_descriptor = {"gs_uri", "base64"}]}

\* Command lines that pass a dry run; the last two are refused after it.
MCDryRuns == {[a EXCEPT !.mode = "dry_run", !.source = "config_csv"] :
                 a \in {Plain, [Plain EXCEPT !.partitions = FALSE], [Plain EXCEPT !.key_column = "absent"]}}

\* Types that only the first batch shows to be unusable.
MCMistyped == {[Plain EXCEPT !.key_column = "other"], [Plain EXCEPT !.value_column = "integer"]}

MCArgs == MCLoads \union MCRefused \union MCDryRuns \union MCMistyped
=============================================================================
