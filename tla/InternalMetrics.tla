--------------------------- MODULE InternalMetrics ---------------------------
(***************************************************************************)
(* The built-in metrics: for each one its tag, its collector, and for each *)
(* PostgreSQL version it has a query for the names of the columns that are *)
(* not labels ("" stands for the metric itself).                           *)
(***************************************************************************)
EXTENDS MetricFiles

postgresql_primary ==
    Metric("postgresql_primary", "primary", TRUE, <<
        Query(Pg(10), << "" >>, TRUE) >>)

pg_database_size ==
    Metric("pg_database_size", "db", TRUE, <<
        Query(Pg(10), << "" >>, TRUE) >>)

pg_locks_count ==
    Metric("pg_locks_count", "locks", TRUE, <<
        Query(Pg(10), << "" >>, TRUE) >>)

pg_replication_slots ==
    Metric("pg_replication_slots", "replication", TRUE, <<
        Query(Pg(10), << "active", "temporary" >>, TRUE),
        Query(Pg(18), << "active", "temporary", "two_phase", "inactive_since_seconds",
                         "conflicting", "failover", "synced" >>, TRUE) >>)

pg_stat_bgwriter ==
    Metric("pg_stat_bgwriter", "stat_bgwriter", TRUE, <<
        Query(Pg(10), << "buffers_alloc", "buffers_backend", "buffers_backend_fsync",
                         "buffers_checkpoint", "buffers_clean", "checkpoint_sync_time",
                         "checkpoint_write_time", "checkpoints_req", "checkpoints_timed",
                         "maxwritten_clean" >>, TRUE),
        Query(Pg(17), << "buffers_alloc", "buffers_clean", "maxwritten_clean" >>, TRUE) >>)

pg_process_idle_seconds ==
    Metric("pg_process_idle_seconds", "idle_procs", TRUE, <<
        Query(Pg(10), << "seconds" >>, TRUE) >>)

pg_available_extensions ==
    Metric("pg_available_extensions", "available_extensions", TRUE, <<
        Query(Pg(10), << "" >>, TRUE) >>)

pg_installed_extensions ==
    Metric("pg_installed_extensions", "installed_extensions", TRUE, <<
        Query(Pg(10), << "" >>, TRUE) >>)

pg_file_settings ==
    Metric("pg_file_settings", "file_settings", TRUE, <<
        Query(Pg(10), << "" >>, TRUE) >>)

pg_indexes ==
    Metric("pg_indexes", "indexes", TRUE, <<
        Query(Pg(10), << "" >>, TRUE) >>)

pg_matviews ==
    Metric("pg_matviews", "matviews", TRUE, <<
        Query(Pg(10), << "" >>, TRUE) >>)

pg_role ==
    Metric("pg_role", "roles", TRUE, <<
        Query(Pg(10), << "" >>, TRUE) >>)

pg_rule ==
    Metric("pg_rule", "rules", TRUE, <<
        Query(Pg(10), << "" >>, TRUE) >>)

pg_shadow ==
    Metric("pg_shadow", "auth_type", TRUE, <<
        Query(Pg(10), << "" >>, TRUE) >>)

pg_usr_evt_trigger ==
    Metric("pg_usr_evt_trigger", "usr_evt_trigger", TRUE, <<
        Query(Pg(10), << "" >>, TRUE) >>)

pg_db_conn ==
    Metric("pg_db_conn", "connections", TRUE, <<
        Query(Pg(10), << "" >>, TRUE) >>)

pg_db_conn_ssl ==
    Metric("pg_db_conn_ssl", "connections", TRUE, <<
        Query(Pg(10), << "" >>, TRUE) >>)

pg_statio_all_tables ==
    Metric("pg_statio_all_tables", "statio_all_tables", TRUE, <<
        Query(Pg(10), << "heap_blks_read", "heap_blks_hit", "idx_blks_read", "idx_blks_hit",
                         "toast_blks_read", "toast_blks_hit", "tidx_blks_read", "tidx_blks_hit" >>, TRUE) >>)

pg_statio_all_sequences ==
    Metric("pg_statio_all_sequences", "statio_all_sequences", TRUE, <<
        Query(Pg(10), << "blks_read", "blks_hit" >>, TRUE) >>)

pg_stat_user_functions ==
    Metric("pg_stat_user_functions", "stat_user_functions", TRUE, <<
        Query(Pg(10), << "calls", "self_time", "total_time" >>, TRUE) >>)

pg_stat_replication ==
    Metric("pg_stat_replication", "stat_replication", TRUE, <<
        Query(Pg(10), << "" >>, TRUE) >>)

pg_stat_archiver ==
    Metric("pg_stat_archiver", "stat_archiver", TRUE, <<
        Query(Pg(10), << "archived_count", "success_time_elapsed_ms", "failed_count",
                         "failure_time_elapsed_ms" >>, TRUE) >>)

pg_db_vacuum ==
    Metric("pg_db_vacuum", "db_vacuum", TRUE, <<
        Query(Pg(10), << "age", "age_datminmxid" >>, TRUE) >>)

pg_view_vacuum ==
    Metric("pg_view_vacuum", "db_vacuum", TRUE, <<
        Query(Pg(10), << "age" >>, TRUE) >>)

pg_blocked_vacuum ==
    Metric("pg_blocked_vacuum", "blocked_vacuum", TRUE, <<
        Query(Pg(10), << "blocked_duration_seconds", "blocking_duration_seconds" >>, TRUE) >>)

pg_wal_last_received ==
    Metric("pg_wal_last_received", "wal_last_received", TRUE, <<
        Query(Pg(11), << "" >>, TRUE) >>)

pg_stat_walreceiver ==
    Metric("pg_stat_walreceiver", "stat_walreceiver", TRUE, <<
        Query(Pg(13), << "receive_start_lsn", "receive_start_tli", "written_lsn",
                         "flushed_lsn", "received_tli", "last_msg_send_time",
                         "last_msg_receipt_time", "latest_end_lsn", "latest_end_time",
                         "sender_port" >>, TRUE) >>)

pg_gss_auth ==
    Metric("pg_gss_auth", "gssapi", TRUE, <<
        Query(Pg(12), << "" >>, TRUE) >>)

pg_encrypted_conn ==
    Metric("pg_encrypted_conn", "encryted_conns", TRUE, <<
        Query(Pg(12), << "" >>, TRUE) >>)

pg_shmem_allocations ==
    Metric("pg_shmem_allocations", "shmem_size", TRUE, <<
        Query(Pg(13), << "size" >>, TRUE) >>)

pg_shmem_allocations_numa ==
    Metric("pg_shmem_allocations_numa", "shmem_numa", TRUE, <<
        Query(Pg(18), << "allocations", "total_bytes", "avg_bytes", "max_bytes", "min_bytes" >>, TRUE) >>)

pg_stat_progress_vacuum_13 ==
    Query(Pg(13), << "heap_blks_total", "heap_blks_scanned", "heap_blks_vacuumed",
                     "index_vacuum_count", "max_dead_tuples", "num_dead_tuples",
                     "pct_scan_completed" >>, TRUE)

pg_stat_progress_vacuum_17 ==
    Query(Pg(17), << "heap_blks_total", "heap_blks_scanned", "heap_blks_vacuumed",
                     "index_vacuum_count", "max_dead_tuple_bytes", "dead_tuple_bytes",
                     "num_dead_item_ids", "indexes_total", "indexes_processed",
                     "pct_scan_completed", "pct_index_completed" >>, TRUE)

pg_stat_progress_vacuum_18 ==
    Query(Pg(18), << "heap_blks_total", "heap_blks_scanned", "heap_blks_vacuumed",
                     "index_vacuum_count", "max_dead_tuple_bytes", "dead_tuple_bytes",
                     "num_dead_item_ids", "indexes_total", "indexes_processed", "delay_time",
                     "pct_scan_completed", "pct_index_completed" >>, TRUE)

pg_stat_progress_vacuum ==
    Metric("pg_stat_progress_vacuum", "vacuum_progress", TRUE, <<
        pg_stat_progress_vacuum_13, pg_stat_progress_vacuum_17, pg_stat_progress_vacuum_18 >>)

pg_stat_progress_analyze ==
    Metric("pg_stat_progress_analyze", "analyze_progress", TRUE, <<
        Query(Pg(13), << "sample_blks_total", "sample_blks_scanned", "ext_stats_total",
                         "ext_stats_computed", "child_tables_total", "child_tables_done",
                         "pct_sample_completed", "pct_child_tables_completed" >>, TRUE),
        Query(Pg(18), << "sample_blks_total", "sample_blks_scanned", "ext_stats_total",
                         "ext_stats_computed", "child_tables_total", "child_tables_done",
                         "delay_time", "pct_sample_completed", "pct_child_tables_completed" >>, TRUE) >>)

pg_stat_user_tables_vacuum_13 ==
    Query(Pg(13), << "n_live_tup", "n_dead_tup", "dead_rows_pct", "n_mod_since_analyze",
                     "n_ins_since_vacuum", "last_vacuum_seconds", "last_autovacuum_seconds",
                     "last_analyze_seconds", "last_autoanalyze_seconds", "vacuum_count",
                     "autovacuum_count", "analyze_count", "autoanalyze_count" >>, TRUE)

pg_stat_user_tables_vacuum_16 ==
    Query(Pg(16), << "seq_scan", "last_seq_scan_seconds", "seq_tup_read", "idx_scan",
                     "last_idx_scan_seconds", "idx_tup_fetch", "n_tup_ins", "n_tup_upd",
                     "n_tup_del", "n_tup_hot_upd", "n_tup_newpage_upd", "n_live_tup",
                     "n_dead_tup", "dead_rows_pct", "n_mod_since_analyze",
                     "n_ins_since_vacuum", "last_vacuum_seconds", "last_autovacuum_seconds",
                     "last_analyze_seconds", "last_autoanalyze_seconds", "vacuum_count",
                     "autovacuum_count", "analyze_count", "autoanalyze_count" >>, TRUE)

pg_stat_user_tables_vacuum_18 ==
    Query(Pg(18), << "seq_scan", "last_seq_scan_seconds", "seq_tup_read", "idx_scan",
                     "last_idx_scan_seconds", "idx_tup_fetch", "n_tup_ins", "n_tup_upd",
                     "n_tup_del", "n_tup_hot_upd", "n_tup_newpage_upd", "n_live_tup",
                     "n_dead_tup", "dead_rows_pct", "n_mod_since_analyze",
                     "n_ins_since_vacuum", "last_vacuum_seconds", "last_autovacuum_seconds",
                     "last_analyze_seconds", "last_autoanalyze_seconds", "vacuum_count",
                     "autovacuum_count", "analyze_count", "autoanalyze_count",
                     "total_vacuum_time", "total_autovacuum_time", "total_analyze_time",
                     "total_autoanalyze_time" >>, TRUE)

pg_stat_user_tables_vacuum ==
    Metric("pg_stat_user_tables_vacuum", "stat_user_tables", TRUE, <<
        pg_stat_user_tables_vacuum_13, pg_stat_user_tables_vacuum_16, pg_stat_user_tables_vacuum_18 >>)

pg_table_ratio ==
    Metric("pg_table_ratio", "table_activity_ratio", TRUE, <<
        Query(Pg(13), << "blocks_read", "tuples_read", "blocks_write", "tuples_write",
                         "ratio_write", "ratio_read" >>, TRUE) >>)

pg_table_bloat ==
    Metric("pg_table_bloat", "table_bloat", TRUE, <<
        Query(Pg(13), << "table_size", "bloat_size", "bloat_ratio_pct", "tblpages",
                         "est_tblpages", "block_size" >>, TRUE) >>)

pg_mem_ctx ==
    Metric("pg_mem_ctx", "mem_ctx", TRUE, <<
        Query(Pg(14), << "contexts", "free_bytes", "used_bytes", "total_bytes" >>, TRUE),
        Query(Pg(18), << "contexts", "free_bytes", "used_bytes", "total_bytes" >>, TRUE) >>)

pg_stat_wal ==
    Metric("pg_stat_wal", "stat_wal", TRUE, <<
        Query(Pg(14), << "wal_records", "wal_fpi", "wal_bytes", "wal_buffers_full",
                         "wal_write", "wal_sync", "wal_write_time", "wal_sync_time" >>, TRUE),
        Query(Pg(18), << "wal_records", "wal_fpi", "wal_bytes", "wal_buffers_full",
                         "wal_write", "wal_sync", "wal_write_time", "wal_sync_time" >>, TRUE) >>)

pg_stat_database_10 ==
    Query(Pg(10), << "blk_read_time", "blk_write_time", "blks_hit", "blks_read", "deadlocks",
                     "temp_files", "temp_bytes", "tup_returned", "tup_fetched", "tup_inserted",
                     "tup_updated", "tup_deleted", "xact_commit", "xact_rollback", "conflicts",
                     "numbackends" >>, TRUE)

pg_stat_database_12 ==
    Query(Pg(12), << "blk_read_time", "blk_write_time", "blks_hit", "blks_read", "deadlocks",
                     "temp_files", "temp_bytes", "tup_returned", "tup_fetched", "tup_inserted",
                     "tup_updated", "tup_deleted", "xact_commit", "xact_rollback", "conflicts",
                     "numbackends", "checksum_failures" >>, TRUE)

pg_stat_database_14 ==
    Query(Pg(14), << "blk_read_time", "blk_write_time", "blks_hit", "blks_read", "deadlocks",
                     "temp_files", "temp_bytes", "tup_returned", "tup_fetched", "tup_inserted",
                     "tup_updated", "tup_deleted", "xact_commit", "xact_rollback", "conflicts",
                     "numbackends", "checksum_failures", "session_time", "active_time",
                     "idle_in_transaction_time", "sessions", "sessions_abandoned",
                     "sessions_fatal", "sessions_killed" >>, TRUE)

pg_stat_database_18 ==
    Query(Pg(18), << "blk_read_time", "blk_write_time", "blks_hit", "blks_read", "deadlocks",
                     "temp_files", "temp_bytes", "tup_returned", "tup_fetched", "tup_inserted",
                     "tup_updated", "tup_deleted", "xact_commit", "xact_rollback", "conflicts",
                     "numbackends", "checksum_failures", "session_time", "active_time",
                     "idle_in_transaction_time", "sessions", "sessions_abandoned",
                     "sessions_fatal", "sessions_killed", "parallel_workers_to_launch",
                     "parallel_workers_launched" >>, TRUE)

pg_stat_database ==
    Metric("pg_stat_database", "stat_db", TRUE, <<
        pg_stat_database_10, pg_stat_database_12, pg_stat_database_14, pg_stat_database_18 >>)

pg_stat_subscription_stats ==
    Metric("pg_stat_subscription_stats", "subscription_stats", TRUE, <<
        Query(Pg(16), << "apply_error_count", "sync_error_count", "stats_reset_seconds" >>, TRUE),
        Query(Pg(18), << "apply_error_count", "sync_error_count", "confl_insert_exists",
                         "confl_update_origin_differs", "confl_update_exists",
                         "confl_update_missing", "confl_delete_origin_differs",
                         "confl_delete_missing", "confl_multiple_unique_conflicts",
                         "stats_reset_seconds" >>, TRUE) >>)

pg_wal_prefetch_reset ==
    Metric("pg_wal_prefetch_reset", "wal_prefetch_reset", TRUE, <<
        Query(Pg(15), << "" >>, TRUE) >>)

pg_gssapi_credentials_delegated ==
    Metric("pg_gssapi_credentials_delegated", "gssapi_creds_delegated", TRUE, <<
        Query(Pg(16), << "" >>, TRUE) >>)

pg_stat_io ==
    Metric("pg_stat_io", "stat_io", TRUE, <<
        Query(Pg(16), << "reads", "read_time", "writes", "write_time", "writebacks",
                         "writeback_time", "extends", "extend_time", "op_bytes", "hits",
                         "evictions", "reuses", "fsyncs", "fsync_time" >>, TRUE),
        Query(Pg(18), << "reads", "read_bytes", "read_time", "writes", "write_bytes",
                         "write_time", "writebacks", "writeback_time", "extends",
                         "extend_bytes", "extend_time", "hits", "evictions", "reuses",
                         "fsyncs", "fsync_time" >>, TRUE) >>)

pg_stat_backend_io ==
    Metric("pg_stat_backend_io", "stat_backend_io", TRUE, <<
        Query(Pg(18), << "reads", "read_bytes", "read_time", "writes", "write_bytes",
                         "write_time", "writebacks", "writeback_time", "extends",
                         "extend_bytes", "extend_time", "hits", "evictions", "reuses",
                         "fsyncs", "fsync_time" >>, TRUE) >>)

pg_stat_database_conflicts ==
    Metric("pg_stat_database_conflicts", "stat_conflicts", TRUE, <<
        Query(Pg(10), << "confl_tablespace", "confl_lock", "confl_snapshot", "confl_bufferpin",
                         "confl_deadlock" >>, TRUE),
        Query(Pg(16), << "confl_tablespace", "confl_lock", "confl_snapshot", "confl_bufferpin",
                         "confl_deadlock", "confl_active_logicalslot" >>, TRUE) >>)

pg_stat_all_indexes ==
    Metric("pg_stat_all_indexes", "stat_all_indexes", TRUE, <<
        Query(Pg(10), << "idx_scans", "idx_tup_reads", "idx_tup_fetchs" >>, TRUE),
        Query(Pg(16), << "idx_scans", "idx_tup_reads", "idx_tup_fetchs", "time_elapsed_ms" >>, TRUE) >>)

pg_stat_checkpointer ==
    Metric("pg_stat_checkpointer", "stat_checkpointer", TRUE, <<
        Query(Pg(17), << "num_timed", "num_requested", "restartpoints_timed",
                         "restartpoints_req", "restartpoints_done", "write_time", "sync_time",
                         "buffers_written", "stats_reset_seconds" >>, TRUE),
        Query(Pg(18), << "num_timed", "num_requested", "num_done", "restartpoints_timed",
                         "restartpoints_req", "restartpoints_done", "write_time", "sync_time",
                         "buffers_written", "slru_written", "stats_reset_seconds" >>, TRUE) >>)

pg_aios ==
    Metric("pg_aios", "aios", TRUE, <<
        Query(Pg(18), << "total_operations", "total_bytes", "avg_bytes_per_op",
                         "sync_operations", "buffered_operations" >>, TRUE) >>)

pg_wait_events ==
    Metric("pg_wait_events", "wait_events", TRUE, <<
        Query(Pg(17), << "count" >>, TRUE) >>)

pg_wait_event ==
    Metric("pg_wait_event", "activity", TRUE, <<
        Query(Pg(10), << "count" >>, TRUE) >>)

pg_long_running_transactions ==
    Metric("pg_long_running_transactions", "long_running_txns", TRUE, <<
        Query(Pg(10), << "age_seconds", "postgresql_down", "connections_high",
                         "replication_lag", "wal_receiver_down", "replication_slot_inactive",
                         "xid_wraparound", "multixact_wraparound" >>, TRUE) >>)

InternalYaml ==
    File("yaml", "", 16, <<
        postgresql_primary, pg_database_size, pg_locks_count, pg_replication_slots,
        pg_stat_bgwriter, pg_process_idle_seconds, pg_available_extensions,
        pg_installed_extensions, pg_file_settings, pg_indexes, pg_matviews, pg_role, pg_rule,
        pg_shadow, pg_usr_evt_trigger, pg_db_conn, pg_db_conn_ssl, pg_statio_all_tables,
        pg_statio_all_sequences, pg_stat_user_functions, pg_stat_replication, pg_stat_archiver,
        pg_db_vacuum, pg_view_vacuum, pg_blocked_vacuum, pg_wal_last_received,
        pg_stat_walreceiver, pg_gss_auth, pg_encrypted_conn, pg_shmem_allocations,
        pg_shmem_allocations_numa, pg_stat_progress_vacuum, pg_stat_progress_analyze,
        pg_stat_user_tables_vacuum, pg_table_ratio, pg_table_bloat, pg_mem_ctx, pg_stat_wal,
        pg_stat_database, pg_stat_subscription_stats, pg_wal_prefetch_reset,
        pg_gssapi_credentials_delegated, pg_stat_io, pg_stat_backend_io,
        pg_stat_database_conflicts, pg_stat_all_indexes, pg_stat_checkpointer, pg_aios,
        pg_wait_events, pg_wait_event, pg_long_running_transactions >>)
=============================================================================
