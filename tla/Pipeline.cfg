SPECIFICATION PipelineSpec
CONSTANTS
    None = None
    Id = {"x", "health", ""}
    Field = {"vcpu", "nodes", "service_type"}
INVARIANTS PipelineTypeOK RightDecoded DeliveredIntact MetricsTruth PanicTold
