--------------------------- MODULE FalconWrappers ---------------------------
(***************************************************************************)
(* What the C++ wrappers do at the boundary: the parameters each reads,    *)
(* how it reads them, and the type of the object it packs as its result.   *)
(* What it computes is no part of this table.                              *)
(***************************************************************************)
EXTENDS BindingTypes

Int == Value({"int"})
Float == Value({"float"})
String == Value({"string"})
Bool == Value({"bool"})
Number == Value({"float", "int"})

Wraps(ofThis, names, reads, makes) ==
  {[routine |-> n, ofThis |-> ofThis, reads |-> reads, makes |-> makes] : n \in names}

\* A wrapper that reads the struct it is called on, and one that does not.
On(names, reads, makes) == Wraps(TRUE, names, reads, makes)
Static(names, reads, makes) == Wraps(FALSE, names, reads, makes)

WrappersOf(c, rows) ==
  {[class |-> c, routine |-> w.routine, makes |-> w.makes,
    reads |-> [k \in DOMAIN w.reads \cup (IF w.ofThis THEN {"this"} ELSE {}) |->
                 IF k = "this" THEN Handle(c) ELSE w.reads[k]]] : w \in rows}

\* The groups of wrappers that many files write alike.
JSON(c) == Static({"FromJSON"}, [json |-> String], One(c))
           \cup On({"ToJSON"}, NoParams, Nothing)
Equality(c) == On({"Equal", "NotEqual"}, [other |-> Handle(c)], Nothing)
ArrayArithmetic(c) ==
  Static({"New"}, [arr |-> Handle("FArray")], One(c))
  \cup On({"Negate", "Abs"}, NoParams, One(c))
  \cup On({"Times", "Divides"}, [factor |-> Number], One(c))
  \cup On({"Power"}, [exponent |-> Number], One(c))
ArrayShape(c) ==
  On({"Reshape"}, [shape |-> ArrayRead("int")], One(c))
  \cup On({"Flip"}, [axis |-> Int], One(c))
  \cup On({"Gradient"}, [axis |-> Int], One("FArray"))
  \cup On({"FullGradient"}, NoParams, Array("FArray"))
ArrayLabel == On({"Label"}, NoParams, One("AcquisitionContext"))
              \cup On({"Connection"}, NoParams, One("Connection"))
              \cup On({"Units"}, NoParams, One("SymbolUnit"))

-----------------------------------------------------------------------------
(* The autotuner's names, contexts and interpretations.                    *)

WrappedAcquisitionContext == WrappersOf("AcquisitionContext",
   Static({"New"}, [conn |-> Handle("Connection"), unit |-> Handle("SymbolUnit")],
       One("AcquisitionContext"))
  \cup Static({"NewFromContext"}, [context |-> Handle("MeasurementContext"),
       unit |-> Handle("SymbolUnit")], One("AcquisitionContext"))
  \cup On({"Connection"}, NoParams, One("Connection"))
  \cup On({"Units"}, NoParams, One("SymbolUnit"))
  \cup On({"Division"}, [other |-> Handle("AcquisitionContext")], One("AcquisitionContext"))
  \cup On({"MatchConnection"}, [other |-> Handle("Connection")], Nothing)
  \cup JSON("AcquisitionContext") \cup Equality("AcquisitionContext"))

WrappedMeasurementContext == WrappersOf("MeasurementContext",
   Static({"New"}, [conn |-> Handle("Connection")], One("MeasurementContext"))
  \cup On({"Connection"}, NoParams, One("Connection")) \cup JSON("MeasurementContext")
  \cup Equality("MeasurementContext"))

WrappedInterpretationContainer == WrappersOf("InterpretationContainer",
   Static({"New"}, [map |-> MapRead("Map<InterpretationContext, T>")],
       One("InterpretationContainer"))
  \cup On({"Unit"}, NoParams, One("SymbolUnit"))
  \cup On({"SelectByConnection", "SelectByConnections", "SelectByIndependentConnection",
       "SelectByDependentConnection"}, [conn |-> Handle("Connection")],
       Array("InterpretationContext"))
  \cup On({"SelectContexts"}, NoParams, Array("InterpretationContext"))
  \cup JSON("InterpretationContainer") \cup Equality("InterpretationContainer"))

WrappedInterpretationContext == WrappersOf("InterpretationContext",
   Static({"New"}, [independantVariables |-> ListRead("MeasurementContext"),
       dependantVariables |-> ListRead("MeasurementContext"), unit |-> Handle("SymbolUnit")],
       One("InterpretationContext"))
  \cup On({"IndependentVariables", "DependentVariables"}, NoParams, Array("MeasurementContext"))
  \cup On({"Unit"}, NoParams, One("SymbolUnit")) \cup On({"Dimension"}, NoParams, Nothing)
  \cup On({"AddDependentVariable"}, [context |-> Handle("MeasurementContext")], Nothing)
  \cup On({"ReplaceDependantVariable"}, [index |-> Int,
       context |-> Handle("MeasurementContext")], Nothing)
  \cup On({"GetIndependentVariable"}, [index |-> Int], One("MeasurementContext"))
  \cup On({"WithUnit"}, [unit |-> Handle("SymbolUnit")], One("InterpretationContext")))

WrappedInterpretationContextCodec == WrappersOf("InterpretationContext",
   JSON("InterpretationContext") \cup Equality("InterpretationContext"))

WrappedChannel == WrappersOf("Channel",
   Static({"New"}, [name |-> String], One("Channel")) \cup On({"Name"}, NoParams, Nothing)
  \cup JSON("Channel") \cup Equality("Channel"))

WrappedChannels == WrappersOf("Channels",
   Static({"New"}, [array |-> ArrayRead("Channel")], One("Channels"))
  \cup On({"Size", "IsEmpty", "Clear"}, NoParams, Nothing)
  \cup On({"GetIndex"}, [index |-> Int], One("Channel"))
  \cup On({"SetIndex", "Insert"}, [index |-> Int, value |-> Handle("Channel")], Nothing)
  \cup On({"PushBack"}, [value |-> Handle("Channel")], Nothing)
  \cup On({"PopBack"}, NoParams, One("Channel")) \cup On({"Erase"}, [index |-> Int], Nothing)
  \cup JSON("Channels") \cup Equality("Channels"))

WrappedChannelsSearch == WrappersOf("Channels",
   On({"Contains", "IndexOf"}, [value |-> Handle("Channel")], Nothing))

WrappedGname == WrappersOf("Gname",
   Static({"New"}, [name |-> Value({"string", "int"})], One("Gname"))
  \cup On({"gname"}, NoParams, Nothing) \cup JSON("Gname") \cup Equality("Gname"))

-----------------------------------------------------------------------------
(* Messages and voltage states.                                            *)

WrappedMeasurementRequest == WrappersOf("MeasurementRequest",
   Static({"New"}, [message |-> String, waveforms |-> ArrayRead("Waveform"),
       getters |-> Handle("Ports"), timeDomain |-> Handle("LabelledDomain")],
       One("MeasurementRequest"))
  \cup On({"Getters"}, NoParams, One("Ports"))
  \cup Static({"Waveforms", "MeterTransforms"}, NoParams, Throws)
  \cup On({"TimeDomain"}, NoParams, One("LabelledDomain"))
  \cup On({"Message"}, NoParams, Nothing) \cup JSON("MeasurementRequest")
  \cup Equality("MeasurementRequest"))

WrappedMeasurementResponse == WrappersOf("MeasurementResponse",
   Static({"New"}, [arrays |-> ArrayRead("LabelledMeasuredArray")], One("MeasurementResponse"))
  \cup On({"Arrays"}, NoParams, Array("LabelledMeasuredArray"))
  \cup On({"Message"}, NoParams, Nothing) \cup JSON("MeasurementResponse")
  \cup Equality("MeasurementResponse"))

WrappedSettingRequest == WrappersOf("SettingRequest",
   Static({"New"}, [message |-> String, getters |-> Handle("Ports"),
       setters |-> MapRead("Map<InstrumentPort, Quantity>")], One("SettingRequest"))
  \cup On({"Getters"}, NoParams, One("Ports"))
  \cup On({"Setters"}, NoParams, One("Map<InstrumentPort, Quantity>"))
  \cup On({"Message"}, NoParams, Nothing) \cup JSON("SettingRequest")
  \cup Equality("SettingRequest"))

WrappedSettingResponse == WrappersOf("SettingResponse",
   Static({"New"}, [message |-> String, getters |-> MapRead("Map<InstrumentPort, Quantity>")],
       One("SettingResponse"))
  \cup On({"Getters"}, NoParams, One("Map<InstrumentPort, Quantity>"))
  \cup On({"Message"}, NoParams, Nothing) \cup JSON("SettingResponse")
  \cup Equality("SettingResponse"))

WrappedStandardRequest == WrappersOf("StandardRequest",
   Static({"New"}, [message |-> String], One("StandardRequest"))
  \cup On({"Message"}, NoParams, Nothing) \cup JSON("StandardRequest")
  \cup Equality("StandardRequest"))

WrappedStandardResponse == WrappersOf("StandardResponse",
   Static({"New"}, [message |-> String], One("StandardResponse"))
  \cup On({"Message"}, NoParams, Nothing) \cup JSON("StandardResponse")
  \cup Equality("StandardResponse"))

WrappedVoltageStatesResponse == WrappersOf("VoltageStatesResponse",
   Static({"New"}, [message |-> String, states |-> Handle("DeviceVoltageStates")],
       One("VoltageStatesResponse"))
  \cup On({"States"}, NoParams, One("DeviceVoltageStates"))
  \cup On({"Message"}, NoParams, Nothing) \cup JSON("VoltageStatesResponse")
  \cup Equality("VoltageStatesResponse"))

WrappedDeviceVoltageState == WrappersOf("DeviceVoltageState",
   Static({"New"}, [conn |-> Handle("Connection"), voltage |-> Float,
       unit |-> Handle("SymbolUnit")], One("DeviceVoltageState"))
  \cup On({"Connection"}, NoParams, One("Connection")) \cup On({"Voltage"}, NoParams, Nothing)
  \cup On({"Unit"}, NoParams, One("SymbolUnit"))
  \cup On({"ConvertToUnit"}, [new_unit |-> Handle("SymbolUnit")], One("DeviceVoltageState"))
  \cup On({"Times"}, [factor |-> Number], One("DeviceVoltageState"))
  \cup On({"Divides"}, [divisor |-> Number], One("DeviceVoltageState"))
  \cup Equality("DeviceVoltageState"))

WrappedDeviceVoltageStateArithmetic == WrappersOf("DeviceVoltageState",
   On({"Power"}, [exponent |-> Int], One("DeviceVoltageState"))
  \cup On({"Add", "Subtract"}, [other |-> NumberOr(NoNames, "DeviceVoltageState")],
       One("DeviceVoltageState"))
  \cup On({"Negate", "Abs"}, NoParams,
       One("DeviceVoltageState")) \cup JSON("DeviceVoltageState"))

WrappedDeviceVoltageStates == WrappersOf("DeviceVoltageStates",
   Static({"New"}, [dstates |-> ArrayRead("DeviceVoltageState")], One("DeviceVoltageStates"))
  \cup On({"AddState", "Contains"}, [dstate |-> Handle("DeviceVoltageState")], Nothing)
  \cup On({"Insert"}, [dstate |-> Handle("DeviceVoltageState"), location |-> Int], Nothing)
  \cup On({"Clear", "Size", "Empty"}, NoParams, Nothing)
  \cup On({"FindState"}, [conn |-> Handle("Connection")], One("DeviceVoltageState"))
  \cup On({"ToPoint"}, NoParams, One("Point")))

WrappedDeviceVoltageStatesCodec == WrappersOf("DeviceVoltageStates",
   JSON("DeviceVoltageStates") \cup Equality("DeviceVoltageStates"))

-----------------------------------------------------------------------------
(* Arrays of floats.                                                       *)

WrappedFArray == WrappersOf("FArray",
   On({"Times"}, [factor |-> Number], One("FArray"))
  \cup On({"Divides"}, [divisor |-> Number], One("FArray"))
  \cup On({"Power"}, [exponent |-> Int], One("FArray"))
  \cup On({"Add", "Subtract"}, [other |-> NumberOr(NoNames, "FArray")], One("FArray"))
  \cup On({"Negate", "Abs"}, NoParams,
       One("FArray")) \cup JSON("FArray") \cup Equality("FArray"))

WrappedFArrayTestHelpers == WrappersOf("FArrayTestHelpers",
   Static({"NewFromFloats"}, [values |-> ArrayRead("float")], One("FArray")))

-----------------------------------------------------------------------------
(* Ports, transforms and waveforms.                                        *)

WrappedAccess == WrappersOf("Access",
   Static({"NewReadAccess", "NewWriteAccess", "NewReadWriteAccess"}, NoParams, One("Access")))

WrappedAccessTests == WrappersOf("Access",
   On({"IsReadAccess", "IsWriteAccess", "IsReadWriteAccess"}, NoParams, Nothing))

WrappedScope == WrappersOf("Scope",
   Static({"NewLocalScope", "NewGlobalScope"}, NoParams, One("Scope")))

WrappedScopeTests == WrappersOf("Scope",
   On({"IsLocalScope", "IsGlobalScope"}, NoParams, Nothing))

WrappedInstrument == WrappersOf("Instrument",
   Static({"NewDcVoltageSource", "NewAmnmeter", "NewClock", "NewDiscrete"}, NoParams,
       One("Instrument")))

WrappedInstrumentTests == WrappersOf("Instrument",
   On({"IsDcVoltageSource", "IsAmnmeter", "IsClock", "IsDiscrete"}, NoParams, Nothing))

WrappedCharacteristic == WrappersOf("Characteristic",
   Static({"NewNone", "NewSampleRate", "NewMaxSampleRate", "NewMinSampleRate",
       "NewNumberOfSamples", "NewMinNumberOfSamples", "NewMaxNumberOfSamples",
       "NewSourceVoltage", "NewMinSourceVoltage", "NewMaxSourceVoltage", "NewVoltageRampSlope",
       "NewMinVoltageRampSlope", "NewMaxVoltageRampSlope"}, NoParams, One("Characteristic")))

WrappedCharacteristicTests == WrappersOf("Characteristic",
   On({"IsNone", "IsSampleRate", "IsMaxSampleRate", "IsMinSampleRate", "IsNumberOfSamples",
       "IsMaxNumberOfSamples", "IsMinNumberOfSamples", "IsSourceVoltage", "IsMaxSourceVoltage",
       "IsMinSourceVoltage", "IsVoltageRampSlope", "IsMaxVoltageRampSlope",
       "IsMinVoltageRampSlope"}, NoParams, Nothing))

WrappedInstrumentPort == WrappersOf("InstrumentPort",
   Static({"NewKnob", "NewMeter"}, [default_name |-> String, conn |-> Handle("Connection"),
       units |-> Handle("SymbolUnit"), description |-> String, instrument_name |-> String,
       inst |-> Handle("Instrument")], One("InstrumentPort"))
  \cup Static({"NewSetting"}, [default_name |-> String, conn |-> Handle("Connection"),
       units |-> Handle("SymbolUnit"), description |-> String, instrument_name |-> String,
       inst |-> Handle("Instrument"), scope |-> Handle("Scope"), access |-> Handle("Access"),
       char |-> Handle("Characteristic")], One("InstrumentPort"))
  \cup Static({"NewTimer", "NewExecutionClock"}, NoParams, One("InstrumentPort")))

WrappedInstrumentPortReading == WrappersOf("InstrumentPort",
   On({"DefaultName", "InstrumentName", "Description", "InstrumentFacingName", "IsKnob",
       "IsMeter", "IsSetting"}, NoParams, Nothing)
  \cup On({"PsuedoName"}, NoParams, One("Connection"))
  \cup On({"InstrumentType"}, NoParams, One("Instrument"))
  \cup On({"Scope"}, NoParams, One("Scope")) \cup On({"Access"}, NoParams, One("Access"))
  \cup On({"Characteristic"}, NoParams, One("Characteristic"))
  \cup On({"Units"}, NoParams, One("SymbolUnit")))

WrappedInstrumentPortCodec == WrappersOf("InstrumentPort",
   JSON("InstrumentPort") \cup Equality("InstrumentPort"))

WrappedPortQuery == WrappersOf("PortQuery", Static({"New"}, NoParams, One("PortQuery")))

WrappedPortQuerySetting == WrappersOf("PortQuery",
   On({"SetDefaultName"}, [defaultName |-> String], Nothing)
  \cup On({"SetConnection"}, [conn |-> Handle("Connection")], Nothing)
  \cup On({"SetUnit"}, [unit |-> Handle("SymbolUnit")], Nothing)
  \cup On({"SetInstrumentName"}, [instrumentName |-> String], Nothing)
  \cup On({"SetAccess"}, [access |-> Handle("Access")], Nothing)
  \cup On({"SetScope"}, [scope |-> Handle("Scope")], Nothing)
  \cup On({"SetInstrument"}, [inst |-> Handle("Instrument")], Nothing)
  \cup On({"SetCharacteristic"}, [char |-> Handle("Characteristic")], Nothing))

WrappedPorts == WrappersOf("Ports",
   Static({"New"}, [ports |-> ArrayRead("InstrumentPort")], One("Ports")))

WrappedPortsReading == WrappersOf("Ports",
   On({"Ports"}, NoParams, Array("InstrumentPort"))
  \cup On({"GetDefaultNames"}, NoParams, Array("string"))
  \cup On({"GetPsuedoNames"}, NoParams, Array("Connection"))
  \cup On({"IsKnobs", "IsMeters", "IsSettings", "Size", "IsEmpty"}, NoParams, Nothing)
  \cup On({"GetIndex"}, [index |-> Int], One("InstrumentPort"))
  \cup On({"PushBack"}, [value |-> Handle("InstrumentPort")], Nothing) \cup JSON("Ports")
  \cup Equality("Ports"))

WrappedPortsEditing == WrappersOf("Ports",
   On({"Insert"}, [index |-> Int, value |-> Handle("InstrumentPort")], Nothing)
  \cup On({"Contains", "Index"}, [value |-> Handle("InstrumentPort")], Nothing)
  \cup On({"Clear"}, NoParams, Nothing) \cup On({"Erase"}, [index |-> Int], Nothing)
  \cup On({"IsQueryMatch"}, [query |-> Handle("PortQuery")], Nothing)
  \cup On({"FindQueryMatch"}, [query |-> Handle("PortQuery")], One("InstrumentPort")))

WrappedPortTransform == WrappersOf("PortTransform",
   Static({"New"}, [port |-> Handle("InstrumentPort"), func |-> Handle("AnalyticFunction")],
       One("PortTransform"))
  \cup Static({"ConstantTransform"}, [port |-> Handle("InstrumentPort"), value |-> Float],
       One("PortTransform"))
  \cup Static({"IdentityTranform"}, [port |-> Handle("InstrumentPort")], One("PortTransform"))
  \cup On({"Port"}, NoParams, One("InstrumentPort"))
  \cup On({"Labels"}, NoParams, Array("string")) \cup JSON("PortTransform")
  \cup Equality("PortTransform"))

WrappedPortTransforms == WrappersOf("PortTransforms",
   Static({"New"}, [transforms |-> ArrayRead("PortTransform")], One("PortTransforms"))
  \cup On({"GetIndex"}, [index |-> Int], One("PortTransform"))
  \cup On({"SetIndex", "Insert"}, [index |-> Int, value |-> Handle("PortTransform")], Nothing)
  \cup On({"PushBack", "Contains", "IndexOf"}, [value |-> Handle("PortTransform")], Nothing)
  \cup On({"Erase"}, [index |-> Int], Nothing)
  \cup On({"Clear", "Size", "IsEmpty"}, NoParams, Nothing))

WrappedPortTransformsCodec == WrappersOf("PortTransforms",
   JSON("PortTransforms") \cup Equality("PortTransforms"))

WrappedWaveform == WrappersOf("Waveform",
   Static({"New"}, [space |-> Handle("DiscreteSpace"),
       transforms |-> ArrayRead("PortTransform")], One("Waveform"))
  \cup Static({"NewCartesianWaveform1D"}, [division |-> Int,
       sharedDomain |-> Handle("CoupledLabelledDomain"),
       increasing |-> MapRead("Map<string, bool>"), transforms |-> ArrayRead("PortTransform"),
       domain |-> Handle("Domain")], One("Waveform"))
  \cup Static({"NewCartesianIdentityWaveform1D"}, [division |-> Int,
       sharedDomain |-> Handle("CoupledLabelledDomain"),
       increasing |-> MapRead("Map<string, bool>"), domain |-> Handle("Domain")],
       One("Waveform"))
  \cup Static({"NewCartesianWaveform"}, [divisions |-> AxesRead("int"),
       axes |-> AxesRead("CoupledLabelledDomain"), increasing |-> AxesRead("Map<string, bool>"),
       transforms |-> ArrayRead("PortTransform"), domain |-> Handle("Domain")], One("Waveform"))
  \cup Static({"NewCartesianIdentityWaveform"}, [divisions |-> AxesRead("int"),
       axes |-> AxesRead("CoupledLabelledDomain"), increasing |-> AxesRead("Map<string, bool>"),
       domain |-> Handle("Domain")], One("Waveform")))

WrappedWaveformPlanes == WrappersOf("Waveform",
   Static({"NewCartesianWaveform2D"}, [divisions |-> AxesRead("int"),
       axes |-> AxesRead("CoupledLabelledDomain"), increasing |-> AxesRead("Map<string, bool>"),
       transforms |-> ArrayRead("PortTransform"), domain |-> Handle("Domain")], One("Waveform"))
  \cup Static({"NewCartesianIdentityWaveform2D"}, [divisions |-> AxesRead("int"),
       axes |-> AxesRead("CoupledLabelledDomain"), increasing |-> AxesRead("Map<string, bool>"),
       domain |-> Handle("Domain")], One("Waveform")))

WrappedWaveformEditing == WrappersOf("Waveform",
   On({"Space"}, NoParams, One("DiscreteSpace"))
  \cup On({"Size", "IsEmpty", "Clear"}, NoParams, Nothing)
  \cup On({"GetIndex"}, [index |-> Int], One("PortTransform"))
  \cup On({"SetIndex", "Insert"}, [index |-> Int, value |-> Handle("PortTransform")], Nothing)
  \cup On({"PushBack", "Contains", "IndexOf"}, [value |-> Handle("PortTransform")], Nothing)
  \cup On({"PopBack"}, NoParams, One("PortTransform"))
  \cup On({"Erase"}, [index |-> Int], Nothing))

WrappedWaveformCodec == WrappersOf("Waveform", JSON("Waveform") \cup Equality("Waveform"))

-----------------------------------------------------------------------------
(* Functions and the labelled, control and measured arrays.                *)

WrappedAnalyticFunction == WrappersOf("AnalyticFunction",
   Static({"New"}, [labels |-> ArrayRead("string"), expression |-> String],
       One("AnalyticFunction"))
  \cup Static({"Identity"}, NoParams, One("AnalyticFunction"))
  \cup Static({"Constant"}, [value |-> Number], One("AnalyticFunction"))
  \cup On({"Labels"}, NoParams, Array("string")) \cup JSON("AnalyticFunction")
  \cup Equality("AnalyticFunction"))

WrappedControlArray == WrappersOf("ControlArray",
   On({"Add", "Minus"}, [other |-> NumberOr(AsNamed({"ControlArray"}), "FArray")],
       One("ControlArray"))
  \cup ArrayArithmetic("ControlArray"))

WrappedControlArrayReading == WrappersOf("ControlArray",
   On({"Min", "Max", "PrincipleDimension"}, NoParams, Nothing)
  \cup On({"Alignment"}, NoParams, One("IncreasingAlignment")) \cup JSON("ControlArray")
  \cup Equality("ControlArray") \cup ArrayShape("ControlArray"))

WrappedControlArray1D == WrappersOf("ControlArray1D",
   On({"Add"}, [other |-> NumberOr(As({"ControlArray", "ControlArray1D"}, "ControlArray"),
       "FArray")], One("ControlArray1D"))
  \cup On({"Minus"}, [other |-> NumberOr(AsNamed({"ControlArray1D"}), "FArray")],
       One("ControlArray1D"))
  \cup ArrayArithmetic("ControlArray1D"))

WrappedControlArray1DReading == WrappersOf("ControlArray1D",
   On({"Min", "Max", "PrincipleDimension", "GetStart", "GetEnd", "IsDecreasing", "IsIncreasing",
       "GetDistance", "GetMean", "GetSTD", "Reverse"}, NoParams, Nothing)
  \cup On({"Alignment"}, NoParams, One("IncreasingAlignment"))
  \cup On({"GetClosestIndex"}, [value |-> Number], Nothing))

WrappedControlArray1DShaping == WrappersOf("ControlArray1D",
   On({"EvenDivisions"}, [divisions |-> Int], Array("FArray")) \cup JSON("ControlArray1D")
  \cup Equality("ControlArray1D") \cup ArrayShape("ControlArray1D"))

WrappedIncreasingAlignment == WrappersOf("IncreasingAlignment",
   Static({"New"}, [alignment |-> Bool], One("IncreasingAlignment"))
  \cup On({"Alignment"}, NoParams, Nothing) \cup JSON("IncreasingAlignment")
  \cup Equality("IncreasingAlignment"))

WrappedLabelledControlArray == WrappersOf("LabelledControlArray",
   On({"Add", "Minus"}, [other |-> NumberOr(AsNamed({"LabelledControlArray"}), "FArray")],
       One("LabelledControlArray"))
  \cup ArrayArithmetic("LabelledControlArray"))

WrappedLabelledControlArrayReading == WrappersOf("LabelledControlArray",
   On({"Min", "Max", "PrincipleDimension"}, NoParams, Nothing)
  \cup On({"Alignment"}, NoParams, One("IncreasingAlignment")) \cup JSON("LabelledControlArray")
  \cup Equality("LabelledControlArray") \cup ArrayShape("LabelledControlArray") \cup ArrayLabel)

WrappedLabelledControlArray1D == WrappersOf("LabelledControlArray1D",
   On({"Add", "Minus"}, [other |-> NumberOr(AsNamed({"LabelledControlArray1D"}), "FArray")],
       One("LabelledControlArray1D"))
  \cup ArrayArithmetic("LabelledControlArray1D"))

WrappedLabelledControlArray1DReading == WrappersOf("LabelledControlArray1D",
   On({"Min", "Max", "PrincipleDimension", "GetStart", "GetEnd", "IsDecreasing", "IsIncreasing",
       "GetDistance", "GetMean", "GetSTD"}, NoParams, Nothing)
  \cup On({"Alignment"}, NoParams, One("IncreasingAlignment")) \cup ArrayLabel)

WrappedLabelledControlArray1DShaping == WrappersOf("LabelledControlArray1D",
   On({"Reverse"}, NoParams, Nothing)
  \cup On({"GetClosestIndex"}, [value |-> Number], Nothing)
  \cup On({"EvenDivisions"}, [divisions |-> Int], Array("FArray"))
  \cup JSON("LabelledControlArray1D") \cup Equality("LabelledControlArray1D")
  \cup ArrayShape("LabelledControlArray1D"))

WrappedLabelledMeasuredArray == WrappersOf("LabelledMeasuredArray",
   On({"Add", "Minus"}, [other |-> NumberOr(AsNamed({"LabelledMeasuredArray", "MeasuredArray"}),
       "FArray")], One("LabelledMeasuredArray"))
  \cup ArrayArithmetic("LabelledMeasuredArray"))

WrappedLabelledMeasuredArrayReading == WrappersOf("LabelledMeasuredArray",
   On({"Min", "Max", "ToJSON"}, NoParams, Nothing)
  \cup On({"Equal", "NotEqual"}, [other |-> Handle("FArray")], Nothing)
  \cup Static({"FromJSON"}, [json |-> String], One("FArray"))
  \cup ArrayShape("LabelledMeasuredArray") \cup ArrayLabel)

WrappedLabelledMeasuredArray1D == WrappersOf("LabelledMeasuredArray1D",
   On({"Add", "Minus"}, [other |-> NumberOr(AsNamed({"LabelledMeasuredArray1D",
       "MeasuredArray"}), "FArray")], One("LabelledMeasuredArray1D"))
  \cup ArrayArithmetic("LabelledMeasuredArray1D"))

WrappedLabelledMeasuredArray1DReading == WrappersOf("LabelledMeasuredArray1D",
   On({"Min", "Max", "GetStart", "GetEnd", "IsDecreasing", "IsIncreasing", "GetDistance",
       "GetMean", "GetSTD"}, NoParams, Nothing)
  \cup ArrayLabel)

WrappedLabelledMeasuredArray1DShaping == WrappersOf("LabelledMeasuredArray1D",
   On({"Reverse"}, NoParams, Nothing)
  \cup On({"GetClosestIndex"}, [value |-> Number], Nothing)
  \cup On({"EvenDivisions"}, [divisions |-> Int], Array("FArray"))
  \cup JSON("LabelledMeasuredArray1D") \cup Equality("LabelledMeasuredArray1D")
  \cup ArrayShape("LabelledMeasuredArray1D"))

WrappedMeasuredArray == WrappersOf("MeasuredArray",
   On({"Add", "Minus"}, [other |-> NumberOr(AsNamed({"MeasuredArray"}), "FArray")],
       One("MeasuredArray"))
  \cup ArrayArithmetic("MeasuredArray"))

WrappedMeasuredArrayReading == WrappersOf("MeasuredArray",
   On({"Min", "Max", "ToJSON"}, NoParams, Nothing)
  \cup On({"Equal", "NotEqual"}, [other |-> Handle("FArray")], Nothing)
  \cup Static({"FromJSON"}, [json |-> String], One("FArray")) \cup ArrayShape("MeasuredArray"))

\* Were every struct taken for a measured array, whatever its type name.
WrappedMeasuredArray1D_AnyStruct == WrappersOf("MeasuredArray1D",
   On({"Add", "Minus"}, [other |-> NumberOr(NoNames, "MeasuredArray")], One("MeasuredArray1D"))
  \cup ArrayArithmetic("MeasuredArray1D"))

WrappedMeasuredArray1D == WrappersOf("MeasuredArray1D",
   On({"Add", "Minus"}, [other |-> NumberOr(As({"MeasuredArray", "MeasuredArray1D"},
       "MeasuredArray"), "FArray")], One("MeasuredArray1D"))
  \cup ArrayArithmetic("MeasuredArray1D"))

WrappedMeasuredArray1DReading == WrappersOf("MeasuredArray1D",
   On({"Min", "Max", "GetStart", "GetEnd", "IsDecreasing", "IsIncreasing", "GetDistance",
       "GetMean", "GetSTD", "Reverse"}, NoParams, Nothing)
  \cup On({"GetClosestIndex"}, [value |-> Number], Nothing)
  \cup On({"EvenDivisions"}, [divisions |-> Int], Array("FArray"))
  \cup ArrayShape("MeasuredArray1D"))

WrappedMeasuredArray1DCodec == WrappersOf("MeasuredArray1D",
   JSON("MeasuredArray1D") \cup Equality("MeasuredArray1D"))

-----------------------------------------------------------------------------
(* Domains, spaces, points, quantities and vectors.                        *)

WrappedDiscreteSpace == WrappersOf("DiscreteSpace",
   Static({"New"}, [space |-> Handle("UnitSpace"), axes |-> ListRead("CoupledLabelledDomain"),
       increasing |-> ListRead("Map<string, bool>")], One("DiscreteSpace"))
  \cup Static({"CartesianDiscreteSpace"}, [divisions |-> ListRead("int"),
       axes |-> ListRead("CoupledLabelledDomain"), increasing |-> ListRead("Map<string, bool>"),
       domain |-> Handle("Domain")], One("DiscreteSpace"))
  \cup Static({"CartesianDiscreteSpace1D"}, [division |-> Int,
       sharedDomain |-> Handle("CoupledLabelledDomain"),
       increasing |-> MapRead("Map<string, bool>"), domain |-> Handle("Domain")],
       One("DiscreteSpace")))

WrappedDiscreteSpaceReading == WrappersOf("DiscreteSpace",
   On({"Space"}, NoParams, One("UnitSpace"))
  \cup On({"Increasing"}, NoParams, Array("Map<string, bool>"))
  \cup On({"Knobs"}, NoParams, One("Ports"))
  \cup On({"GetAxis"}, [port |-> Handle("InstrumentPort")], Nothing)
  \cup On({"GetDomain"}, [port |-> Handle("InstrumentPort")], One("Domain"))
  \cup On({"GetProjection"}, [projection |-> ListRead("InstrumentPort")],
       Array("LabelledControlArray")))

WrappedDiscreteSpaceCodec == WrappersOf("DiscreteSpace",
   JSON("DiscreteSpace") \cup Equality("DiscreteSpace"))

WrappedDiscretizer == WrappersOf("Discretizer",
   Static({"NewCartesianDiscretizer", "NewPolarDiscretizer"}, [delta |-> Float],
       One("Discretizer"))
  \cup On({"Delta", "IsCartesian", "IsPolar"}, NoParams, Nothing)
  \cup On({"SetDelta"}, [delta |-> Float], Nothing) \cup On({"Domain"}, NoParams, One("Domain"))
  \cup JSON("Discretizer") \cup Equality("Discretizer"))

WrappedCoupledLabelledDomain == WrappersOf("CoupledLabelledDomain",
   Static({"New"}, [conns |-> ArrayRead("LabelledDomain")], One("CoupledLabelledDomain"))
  \cup JSON("CoupledLabelledDomain") \cup Equality("CoupledLabelledDomain"))

WrappedCoupledLabelledDomainEditing == WrappersOf("CoupledLabelledDomain",
   On({"Size", "IsEmpty", "Clear"}, NoParams, Nothing)
  \cup On({"GetIndex"}, [index |-> Int], One("LabelledDomain"))
  \cup On({"PushBack", "Contains", "Index"}, [value |-> Handle("LabelledDomain")], Nothing)
  \cup On({"Insert"}, [index |-> Int, value |-> Handle("LabelledDomain")], Nothing)
  \cup On({"Domains"}, NoParams, Array("LabelledDomain"))
  \cup On({"Labels"}, NoParams, One("Ports"))
  \cup On({"GetDomain"}, [search |-> Handle("InstrumentPort")], One("LabelledDomain"))
  \cup On({"Erase"}, [index |-> Int], Nothing))

WrappedDomain == WrappersOf("Domain",
   Static({"New"}, [min |-> Float, max |-> Float, lesser_bound_contained |-> Bool,
       greater_bound_contained |-> Bool], One("Domain"))
  \cup On({"LesserBound", "GreaterBound", "LesserBoundContained", "GreaterBoundContained",
       "Range", "GetCenter", "IsEmpty"}, NoParams, Nothing)
  \cup On({"In"}, [value |-> Float], Nothing)
  \cup On({"Intersection", "Union"}, [other |-> Handle("Domain")], One("Domain"))
  \cup On({"ContainsDomain"}, [other |-> Handle("Domain")], Nothing)
  \cup On({"Shift", "Scaled"}, [offset |-> Float], One("Domain"))
  \cup On({"Transform"}, [other |-> Handle("Domain"), value |-> Float], Nothing))

WrappedDomainCodec == WrappersOf("Domain", JSON("Domain") \cup Equality("Domain"))

WrappedLabelledDomain == WrappersOf("LabelledDomain",
   Static({"NewFromKnob"}, [defaultName |-> String, min |-> Float, max |-> Float,
       psuedoName |-> Handle("Connection"), lesserBoundContained |-> Bool,
       greaterBoundContained |-> Bool, units |-> Handle("SymbolUnit"), description |-> String],
       One("LabelledDomain"))
  \cup Static({"FromPort"}, [max |-> Float, min |-> Float, port |-> Handle("InstrumentPort"),
       lesserboundContainer |-> Bool, greaterBoundContained |-> Bool], One("LabelledDomain"))
  \cup Static({"FromPortAndDomain"}, [port |-> Handle("InstrumentPort"),
       domain |-> Handle("Domain")], One("LabelledDomain"))
  \cup Static({"FromDomain"}, [domain |-> Handle("Domain"), defaultName |-> String,
       psuedoName |-> Handle("Connection"), units |-> Handle("SymbolUnit"),
       description |-> String], One("LabelledDomain")))

WrappedLabelledDomainReading == WrappersOf("LabelledDomain",
   On({"Port"}, NoParams, One("InstrumentPort")) \cup On({"Domain"}, NoParams, One("Domain"))
  \cup On({"MatchingPort"}, [port |-> Handle("InstrumentPort")], Nothing)
  \cup On({"LesserBound", "GreaterBound", "LesserBoundContained", "GreaterBoundContained",
       "Range", "GetCenter", "IsEmpty"}, NoParams, Nothing)
  \cup On({"In"}, [value |-> Float], Nothing)
  \cup On({"Intersection", "Union"}, [other |-> Handle("LabelledDomain")],
       One("LabelledDomain"))
  \cup On({"ContainsDomain"}, [other |-> Handle("LabelledDomain")], Nothing))

WrappedLabelledDomainMoving == WrappersOf("LabelledDomain",
   On({"Shift", "Scaled"}, [offset |-> Float], One("LabelledDomain"))
  \cup On({"Transform"}, [other |-> Handle("LabelledDomain"), value |-> Float], Nothing)
  \cup JSON("LabelledDomain") \cup Equality("LabelledDomain"))

WrappedPoint == WrappersOf("Point",
   Static({"NewFromRaw"}, [init |-> MapRead("Map<Connection, float>"),
       unit |-> Handle("SymbolUnit")], One("Point"))
  \cup Static({"NewFromQuantity"}, [init |-> MapRead("Map<Connection, Quantity>")],
       One("Point"))
  \cup On({"InsertOrAssign", "Insert"}, [key |-> Handle("Connection"),
       value |-> Handle("Quantity")], Nothing)
  \cup On({"SetUnit"}, [unit |-> Handle("SymbolUnit")], Nothing))

WrappedPointArithmetic == WrappersOf("Point",
   On({"Unit"}, NoParams, One("SymbolUnit"))
  \cup On({"Coordinates"}, NoParams, One("Map<Connection, Quantity>"))
  \cup On({"Connections"}, NoParams, Array("Connection"))
  \cup On({"Times"}, [factor |-> Float], One("Point"))
  \cup On({"Divides"}, [divisor |-> Float], One("Point"))
  \cup On({"Add", "Subtract"}, [other |-> Handle("Point")], One("Point"))
  \cup On({"Negate"}, NoParams, One("Point")))

WrappedPointCodec == WrappersOf("Point", JSON("Point") \cup Equality("Point"))

WrappedQuantity == WrappersOf("Quantity",
   Static({"New"}, [value |-> Float, unit |-> Handle("SymbolUnit")], One("Quantity"))
  \cup On({"Value"}, NoParams, Nothing) \cup On({"Unit"}, NoParams, One("SymbolUnit"))
  \cup On({"ConvertToUnit"}, [new_unit |-> Handle("SymbolUnit")], One("Quantity"))
  \cup Equality("Quantity"))

WrappedQuantityArithmetic == WrappersOf("Quantity",
   On({"Times"}, [factor |-> NumberOr(NoNames, "Quantity")], One("Quantity"))
  \cup On({"Divides"}, [divisor |-> NumberOr(NoNames, "Quantity")], One("Quantity"))
  \cup On({"Power"}, [exponent |-> Float], One("Quantity"))
  \cup On({"Add", "Subtract"}, [other |-> Handle("Quantity")], One("Quantity"))
  \cup On({"Negate", "Abs"}, NoParams, One("Quantity")) \cup JSON("Quantity"))

WrappedUnitSpace == WrappersOf("UnitSpace",
   Static({"New", "CartesianSpace", "Cartesian2DSpace"}, [domain |-> Handle("Domain")],
       One("UnitSpace"))
  \cup Static({"RaySpace"}, [dr |-> Float, dtheta |-> Float, domain |-> Handle("Domain")],
       One("UnitSpace"))
  \cup Static({"Cartesian1DSpace"}, [delta |-> Float, domain |-> Handle("Domain")],
       One("UnitSpace")))

WrappedUnitSpaceReading == WrappersOf("UnitSpace",
   On({"Axes"}, NoParams, One("native Axes")) \cup On({"Domain"}, NoParams, One("Domain"))
  \cup On({"Space"}, NoParams, One("FArray")) \cup On({"Shape"}, NoParams, Array("int"))
  \cup On({"Dimension", "Compile"}, NoParams, Nothing)
  \cup Static({"CreateArray"}, NoParams, Nil) \cup JSON("UnitSpace")
  \cup Equality("UnitSpace"))

WrappedVector == WrappersOf("Vector",
   Static({"NewFromStart"}, [begin |-> Handle("Point")], One("Vector"))
  \cup Static({"New"}, [begin |-> Handle("Point"), end |-> Handle("Point")], One("Vector"))
  \cup On({"EndPoint", "StartPoint"}, NoParams, One("Point"))
  \cup On({"Connections"}, NoParams, Array("Connection"))
  \cup On({"Unit"}, NoParams, One("SymbolUnit"))
  \cup On({"PrincipleConnection"}, NoParams, One("Connection"))
  \cup On({"Magnitude"}, NoParams, Nothing))

WrappedVectorArithmetic == WrappersOf("Vector",
   On({"Times"}, [factor |-> Number], One("Vector"))
  \cup On({"Divides"}, [divisor |-> Number], One("Vector"))
  \cup On({"Add", "Subtract", "Project"}, [other |-> Handle("Vector")], One("Vector"))
  \cup On({"Negate", "TranslateToOrigin", "UnitVector", "Normalize"}, NoParams, One("Vector"))
  \cup On({"UpdateStartFromStates"}, [states |-> Handle("DeviceVoltageStates")], One("Vector"))
  \cup On({"Translate"}, [point |-> Handle("Point")], One("Vector"))
  \cup On({"Extend", "Shrink"}, [extension |-> Number], One("Vector"))
  \cup On({"UpdateUnit"}, [unit |-> Handle("SymbolUnit")], Nothing))

WrappedVectorCodec == WrappersOf("Vector", JSON("Vector") \cup Equality("Vector"))

-----------------------------------------------------------------------------
(* The device: configuration, connections, impedances and units.           *)

WrappedAdjacency == WrappersOf("Adjacency", JSON("Adjacency") \cup Equality("Adjacency"))

WrappedVoltageConstraints == WrappersOf("VoltageConstraints",
   Static({"Matrix", "Limits"}, NoParams, Throws)
  \cup On({"Adjacency"}, NoParams, One("Adjacency")) \cup JSON("VoltageConstraints")
  \cup Equality("VoltageConstraints"))

WrappedGroup == WrappersOf("Group",
   On({"Name"}, NoParams, One("Channel")) \cup On({"NumDots"}, NoParams, Nothing)
  \cup On({"ScreeningGates", "ReservoirGates", "PlungerGates", "BarrierGates", "Ohmics",
       "Order"}, NoParams, One("Connections"))
  \cup JSON("Group") \cup Equality("Group"))

WrappedConfig == WrappersOf("Config",
   Static({"Load"}, [config_path |-> String], One("Config"))
  \cup On({"NumUniqueChannels"}, NoParams, Nothing)
  \cup On({"Channels"}, NoParams, One("Channels"))
  \cup On({"GetCurrentChannels"}, NoParams, Array("Channel"))
  \cup On({"GetChannelPlungerGates", "GetChannelBarrierGates", "GetChannelReservoirGates",
       "GetChannelScreeningGates", "GetChannelDotGates", "GetChannelGates", "GetChannelOhmics"},
       [ch |-> Handle("Channel")], Array("Connection"))
  \cup On({"GetAssociatedOhmic"}, [reservoir_gate |-> Handle("Connection")], One("Connection"))
  \cup On({"GetGname"}, [ch |-> Handle("Channel")], One("Gname")))

WrappedConfigGroups == WrappersOf("Config",
   On({"GetGroupPlungerGates", "GetGroupBarrierGates", "GetGroupReservoirGates",
       "GetGroupScreeningGates", "GetGroupDotGates", "GetGroupGates"}, [gn |-> Handle("Gname")],
       One("Connections"))
  \cup On({"HasChannel", "GetDotNumber"}, [ch |-> Handle("Channel")], Nothing)
  \cup On({"HasGname"}, [gn |-> Handle("Gname")], Nothing)
  \cup On({"SelectGroup"}, [gn |-> Handle("Gname")], One("Group"))
  \cup On({"GetAllGnames"}, NoParams, Array("Gname"))
  \cup On({"OhmicInChargeSensor"}, [ohmic |-> Handle("Connection")], Nothing)
  \cup On({"GetImpedance"}, [conn |-> Handle("Connection")], One("Impedance"))
  \cup On({"VoltageConstraints"}, NoParams, One("VoltageConstraints"))
  \cup On({"WiringDC"}, NoParams, One("Impedances")) \cup JSON("Config") \cup Equality("Config"))

\* Were the loader itself packed as its configuration.
WrappedLoader_PacksItself == WrappersOf("Loader",
   Static({"New"}, [config_path |-> String], One("Loader"))
  \cup On({"Config"}, NoParams, One("Loader")))

\* Were the path looked up under another name than the .fal file's.
WrappedLoader_OtherName == WrappersOf("Loader",
   Static({"New"}, [path |-> String], One("Loader"))
  \cup On({"Config"}, NoParams, One("Config")))

WrappedLoader == WrappersOf("Loader",
   Static({"New"}, [config_path |-> String], One("Loader"))
  \cup On({"Config"}, NoParams, One("Config")))

WrappedConnection == WrappersOf("Connection",
   Static({"NewPlungerGate", "NewBarrierGate", "NewReservoirGate", "NewScreeningGate",
       "NewOhmic"}, [name |-> String], One("Connection")))

WrappedConnectionReading == WrappersOf("Connection",
   On({"Name", "Type", "IsDotGate", "IsBarrierGate", "IsPlungerGate", "IsScreeningGate",
       "IsReservoirGate", "IsOhmic", "IsGate"}, NoParams, Nothing)
  \cup JSON("Connection") \cup Equality("Connection"))

WrappedConnections == WrappersOf("Connections",
   Static({"New"}, [conns |-> ArrayRead("Connection")], One("Connections"))
  \cup On({"IsGates", "IsOhmics", "IsDotGates", "IsPlungerGates", "IsBarrierGates",
       "IsReservoirGates", "IsScreeningGates"}, NoParams, Nothing)
  \cup On({"Intersection"}, [other |-> Handle("Connections")], One("Connections"))
  \cup JSON("Connections") \cup Equality("Connections"))

WrappedConnectionsEditing == WrappersOf("Connections",
   On({"Size", "IsEmpty", "Clear"}, NoParams, Nothing)
  \cup On({"GetIndex"}, [index |-> Int], One("Connection"))
  \cup On({"PushBack", "Contains", "Index"}, [value |-> Handle("Connection")], Nothing)
  \cup On({"Insert"}, [index |-> Int, value |-> Handle("Connection")], Nothing)
  \cup On({"Items"}, NoParams, Array("Connection")) \cup On({"Erase"}, [index |-> Int], Nothing))

WrappedImpedance == WrappersOf("Impedance",
   Static({"New"}, [conn |-> Handle("Connection"), resistance |-> Float, capacitance |-> Float],
       One("Impedance"))
  \cup On({"GetConnection"}, NoParams, One("Connection"))
  \cup On({"Resistance", "Capacitance"}, NoParams, Nothing) \cup JSON("Impedance")
  \cup Equality("Impedance"))

WrappedImpedances == WrappersOf("Impedances",
   Static({"New"}, [imps |-> ArrayRead("Impedance")], One("Impedances"))
  \cup On({"Size", "IsEmpty", "Clear"}, NoParams, Nothing)
  \cup On({"GetIndex"}, [index |-> Int], One("Impedance"))
  \cup On({"PushBack", "Contains", "Index"}, [value |-> Handle("Impedance")], Nothing)
  \cup On({"Insert"}, [index |-> Int, value |-> Handle("Impedance")], Nothing)
  \cup On({"Items"}, NoParams, Array("Impedance")) \cup On({"Erase"}, [index |-> Int], Nothing)
  \cup JSON("Impedances") \cup Equality("Impedances"))

WrappedSymbolUnit == WrappersOf("SymbolUnit",
   Static({"Meter", "Kilogram", "Second", "Ampere", "Kelvin", "Mole", "Candela", "Hertz",
       "Newton", "Pascal", "Joule", "Watt", "Coulomb", "Volt", "Farad", "Ohm", "Siemens",
       "Weber", "Tesla", "Henry", "Minute", "Hour", "ElectronVolt", "Celsius", "Fahrenheit",
       "Dimensionless", "Percent", "Radian"}, NoParams, One("SymbolUnit")))

WrappedSymbolUnitScaled == WrappersOf("SymbolUnit",
   Static({"Kilometer", "Millimeter", "Millivolt", "Kilovolt", "Milliampere", "Microampere",
       "Nanoampere", "Picoampere", "Millisecond", "Microsecond", "Nanosecond", "Picosecond",
       "Milliohm", "Kiloohm", "Megaohm", "Millihertz", "Kilohertz", "Megahertz", "Gigahertz",
       "Meterspersecond", "MeterspersecondSquared", "Newtonmeter", "Newtonpermeter",
       "Voltspermeter", "Voltspersecond", "Amperespermeter", "Voltsperampere",
       "Wattspermeterkelvin"}, NoParams, One("SymbolUnit")))

WrappedSymbolUnitReading == WrappersOf("SymbolUnit",
   On({"Name", "Symbol"}, NoParams, Nothing)
  \cup On({"IsEqual", "IsNotEqual"}, [other |-> Handle("SymbolUnit")], Nothing)
  \cup JSON("SymbolUnit"))

-----------------------------------------------------------------------------
(* The stored characteristics, the hub, the log, the strings and the tests. *)

WrappedDeviceCharacteristic == WrappersOf("DeviceCharacteristic",
   Static({"New"}, NoParams, One("DeviceCharacteristic"))
  \cup On({"GetScope", "GetName", "GetHash", "GetTime", "GetState", "GetUnitName", "GetValue",
       "GetExtra", "GetUncertainty"}, NoParams, Nothing)
  \cup On({"GetBarrierGate", "GetPlungerGate", "GetReservoirGate", "GetScreeningGate"},
       NoParams, One("string"))
  \cup On({"SetScope"}, [scope |-> String], One("DeviceCharacteristic"))
  \cup On({"SetName"}, [name |-> String], One("DeviceCharacteristic"))
  \cup On({"SetHash"}, [hash |-> String], One("DeviceCharacteristic"))
  \cup On({"SetState"}, [state_val |-> String], One("DeviceCharacteristic"))
  \cup On({"SetUnitName"}, [unit_name |-> String], One("DeviceCharacteristic"))
  \cup On({"SetValue"}, [characteristic |-> String], One("DeviceCharacteristic"))
  \cup On({"SetExtra"}, [extra |-> String], One("DeviceCharacteristic"))
  \cup On({"SetBarrierGate", "SetPlungerGate", "SetReservoirGate", "SetScreeningGate"},
       [conn |-> Handle("Connection")], One("DeviceCharacteristic"))
  \cup On({"SetUncertainty"}, [uncertainty |-> Float], One("DeviceCharacteristic"))
  \cup On({"SetTime"}, [time |-> Int], One("DeviceCharacteristic")))

WrappedDeviceCharacteristicList == WrappersOf("DeviceCharacteristicList",
   On({"Size"}, NoParams, Nothing)
  \cup On({"Get"}, [index |-> Int], One("DeviceCharacteristic")))

WrappedDeviceCharacteristicQuery == WrappersOf("DeviceCharacteristicQuery",
   Static({"New"}, NoParams, One("DeviceCharacteristicQuery"))
  \cup On({"SetScope"}, [scope |-> String], One("DeviceCharacteristicQuery"))
  \cup On({"SetName"}, [name |-> String], One("DeviceCharacteristicQuery"))
  \cup On({"SetState"}, [state_val |-> String], One("DeviceCharacteristicQuery"))
  \cup On({"SetHash"}, [hash |-> String], One("DeviceCharacteristicQuery"))
  \cup On({"SetUnitName"}, [unit_name |-> String], One("DeviceCharacteristicQuery"))
  \cup On({"SetExtra"}, [extra |-> String], One("DeviceCharacteristicQuery"))
  \cup On({"SetBarrierGate", "SetPlungerGate", "SetReservoirGate", "SetScreeningGate"},
       [conn |-> Handle("Connection")], One("DeviceCharacteristicQuery"))
  \cup On({"SetUncertainty"}, [uncertainty |-> Float], One("DeviceCharacteristicQuery"))
  \cup On({"GetScope", "GetName", "GetHash", "GetState", "GetUnitName", "GetExtra",
       "GetUncertainty"}, NoParams, Nothing)
  \cup On({"GetBarrierGate", "GetPlungerGate", "GetReservoirGate", "GetScreeningGate"},
       NoParams, One("string")))

WrappedDatabase == WrappersOf("database",
   Static({"GetByName"}, [name |-> String], One("DeviceCharacteristic"))
  \cup Static({"GetByName"}, [name |-> String], Nil)
  \cup Static({"GetAll"}, NoParams, One("DeviceCharacteristicList"))
  \cup Static({"GetByHashRange"}, [hash_start |-> String, hash_end |-> String],
       One("DeviceCharacteristicList"))
  \cup Static({"GetByQuery"}, [query |-> Handle("DeviceCharacteristicQuery")],
       One("DeviceCharacteristicList"))
  \cup Static({"Count", "IsConnected", "InitializeSchema", "ClearAll"}, NoParams, Nothing)
  \cup Static({"Insert"}, [dchar |-> Handle("DeviceCharacteristic")], Nothing)
  \cup Static({"DeleteByName"}, [name |-> String], Nothing)
  \cup Static({"DeleteByHash"}, [hash |-> String], Nothing)
  \cup Static({"ExportToJson"}, [filename |-> String], Nothing)
  \cup Static({"ImportFromJson"}, [filename |-> String, clear_existing |-> Bool], Nothing))

WrappedHub == WrappersOf("hub",
   Static({"RequestDeviceState"}, [timeout_ms |-> Int], One("VoltageStatesResponse"))
  \cup Static({"RequestMeasurement"}, [req |-> Handle("MeasurementRequest"),
       timeout_ms |-> Int], One("MeasurementResponse"))
  \cup Static({"RequestSetting"}, [req |-> Handle("SettingRequest"), timeout_ms |-> Int],
       One("SettingResponse"))
  \cup Static({"RequestConfig", "ReadConfig"}, [timeout_ms |-> Int], One("Config"))
  \cup Static({"RequestPortPayload"}, [timeout_ms |-> Int], One("Ports"))
  \cup Static({"CacheDeviceVoltages"}, [voltages |-> Handle("DeviceVoltageStates")], Nothing)
  \cup Static({"ReadDeviceVoltages"}, [timeout_ms |-> Int], One("DeviceVoltageStates"))
  \cup Static({"CacheConfig"}, [config |-> Handle("Config")], Nothing)
  \cup Static({"GetOhmicsConnectedToVoltageSources"}, [timeout_ms |-> Int], One("Connections"))
  \cup Static({"GetVoltageBounds"}, [search_domain |-> Handle("Ports"), timeout_ms |-> Int],
       One("CoupledLabelledDomain"))
  \cup Static({"SafeVoltageChange"}, [proposed_voltages |-> Handle("Point"),
       timeout_ms |-> Int], Nothing)
  \cup Static({"Ramp"}, [end_point |-> Handle("Point"), max_ramp_rate |-> Number,
       timeout_ms |-> Int], Nothing)
  \cup Static({"HasDatabaseConnection"}, NoParams, Nothing))

WrappedLog == WrappersOf("log",
   Static({"Info", "Debug", "Warn", "Err"}, [message |-> String], Nothing))

WrappedStrings == WrappersOf("strings",
   Static({"Contains", "IndexOf"}, [s |-> String, sub |-> String], Nothing)
  \cup Static({"StartsWith"}, [s |-> String, prefix |-> String], Nothing)
  \cup Static({"EndsWith"}, [s |-> String, suffix |-> String], Nothing)
  \cup Static({"Length", "IsEmpty", "ToUpper", "ToLower", "TrimSpace", "StripAnsi", "ToInt",
       "ToDouble", "ToBool"}, [s |-> String], Nothing)
  \cup Static({"Replace", "ReplaceAll"}, [s |-> String, from |-> String, to |-> String],
       Nothing)
  \cup Static({"Concat"}, [a |-> String, b |-> String], Nothing)
  \cup Static({"Substring"}, [s |-> String, begin |-> Int, length |-> Int], Nothing)
  \cup Static({"FromInt"}, [i |-> Int], Nothing)
  \cup Static({"FromDouble"}, [f |-> Float], Nothing)
  \cup Static({"FromBool"}, [b |-> Bool], Nothing)
  \cup Static({"RegexTest"}, [pattern |-> String, text |-> String], Nothing)
  \cup Static({"RegexReplace"}, [s |-> String, pattern |-> String, replacement |-> String],
       Nothing)
  \cup Static({"Format"}, [fmt |-> String, args |-> ArrayRead("string")], Nothing))

WrappedRegexMatch == WrappersOf("RegexMatch",
   Static({"New"}, [pattern |-> String, text |-> String], One("RegexMatch"))
  \cup On({"Matched", "Full", "GroupCount"}, NoParams, Nothing)
  \cup On({"Group"}, [n |-> Int], Nothing))

WrappedTestContext == WrappersOf("TestContext",
   Static({"New"}, [name |-> String], One("TestContext"))
  \cup On({"Name", "Passed", "FailureCount"}, NoParams, Nothing)
  \cup On({"ExpectTrue", "ExpectFalse"}, [condition |-> Bool, msg |-> String], Nothing)
  \cup On({"ExpectIntEq", "ExpectIntNe"}, [expected |-> Int, actual |-> Int, msg |-> String],
       Nothing)
  \cup On({"ExpectIntLt", "ExpectIntGt"}, [a |-> Int, b |-> Int, msg |-> String], Nothing)
  \cup On({"ExpectFloatEq"}, [expected |-> Float, actual |-> Float, tol |-> Float,
       msg |-> String], Nothing)
  \cup On({"ExpectStrEq", "ExpectStrNe"}, [expected |-> String, actual |-> String,
       msg |-> String], Nothing)
  \cup On({"Fail", "Log"}, [msg |-> String], Nothing))

WrappedTestRunner == WrappersOf("TestRunner",
   Static({"New"}, [suite_name |-> String], One("TestRunner"))
  \cup On({"Register"}, [test_name |-> String], Nothing)
  \cup On({"PrintHeader", "HasNext", "CurrentName", "PrintSummary", "PassedCount",
       "FailedCount"}, NoParams, Nothing)
  \cup On({"BeginCurrent"}, NoParams, One("TestContext"))
  \cup On({"EndCurrent"}, [ctx |-> Handle("TestContext")], Nothing))

-----------------------------------------------------------------------------
WrapperRows ==
  WrappedAcquisitionContext \cup WrappedMeasurementContext
  \cup WrappedInterpretationContainer \cup WrappedInterpretationContext
  \cup WrappedInterpretationContextCodec \cup WrappedChannel \cup WrappedChannels
  \cup WrappedChannelsSearch \cup WrappedGname \cup WrappedMeasurementRequest
  \cup WrappedMeasurementResponse \cup WrappedSettingRequest \cup WrappedSettingResponse
  \cup WrappedStandardRequest \cup WrappedStandardResponse
  \cup WrappedVoltageStatesResponse \cup WrappedDeviceVoltageState
  \cup WrappedDeviceVoltageStateArithmetic \cup WrappedDeviceVoltageStates
  \cup WrappedDeviceVoltageStatesCodec \cup WrappedFArray \cup WrappedFArrayTestHelpers
  \cup WrappedAccess \cup WrappedAccessTests \cup WrappedScope \cup WrappedScopeTests
  \cup WrappedInstrument \cup WrappedInstrumentTests \cup WrappedCharacteristic
  \cup WrappedCharacteristicTests \cup WrappedInstrumentPort
  \cup WrappedInstrumentPortReading \cup WrappedInstrumentPortCodec \cup WrappedPortQuery
  \cup WrappedPortQuerySetting \cup WrappedPorts \cup WrappedPortsReading
  \cup WrappedPortsEditing \cup WrappedPortTransform \cup WrappedPortTransforms
  \cup WrappedPortTransformsCodec \cup WrappedWaveform \cup WrappedWaveformPlanes
  \cup WrappedWaveformEditing \cup WrappedWaveformCodec \cup WrappedAnalyticFunction
  \cup WrappedControlArray \cup WrappedControlArrayReading \cup WrappedControlArray1D
  \cup WrappedControlArray1DReading \cup WrappedControlArray1DShaping
  \cup WrappedIncreasingAlignment \cup WrappedLabelledControlArray
  \cup WrappedLabelledControlArrayReading \cup WrappedLabelledControlArray1D
  \cup WrappedLabelledControlArray1DReading \cup WrappedLabelledControlArray1DShaping
  \cup WrappedLabelledMeasuredArray \cup WrappedLabelledMeasuredArrayReading
  \cup WrappedLabelledMeasuredArray1D \cup WrappedLabelledMeasuredArray1DReading
  \cup WrappedLabelledMeasuredArray1DShaping \cup WrappedMeasuredArray
  \cup WrappedMeasuredArrayReading \cup WrappedMeasuredArray1D
  \cup WrappedMeasuredArray1DReading \cup WrappedMeasuredArray1DCodec
  \cup WrappedDiscreteSpace \cup WrappedDiscreteSpaceReading \cup WrappedDiscreteSpaceCodec
  \cup WrappedDiscretizer \cup WrappedCoupledLabelledDomain
  \cup WrappedCoupledLabelledDomainEditing \cup WrappedDomain \cup WrappedDomainCodec
  \cup WrappedLabelledDomain \cup WrappedLabelledDomainReading
  \cup WrappedLabelledDomainMoving \cup WrappedPoint \cup WrappedPointArithmetic
  \cup WrappedPointCodec \cup WrappedQuantity \cup WrappedQuantityArithmetic
  \cup WrappedUnitSpace \cup WrappedUnitSpaceReading \cup WrappedVector
  \cup WrappedVectorArithmetic \cup WrappedVectorCodec \cup WrappedAdjacency
  \cup WrappedVoltageConstraints \cup WrappedGroup \cup WrappedConfig
  \cup WrappedConfigGroups \cup WrappedLoader \cup WrappedConnection
  \cup WrappedConnectionReading \cup WrappedConnections \cup WrappedConnectionsEditing
  \cup WrappedImpedance \cup WrappedImpedances \cup WrappedSymbolUnit
  \cup WrappedSymbolUnitScaled \cup WrappedSymbolUnitReading
  \cup WrappedDeviceCharacteristic \cup WrappedDeviceCharacteristicList
  \cup WrappedDeviceCharacteristicQuery \cup WrappedDatabase \cup WrappedHub
  \cup WrappedLog \cup WrappedStrings \cup WrappedRegexMatch \cup WrappedTestContext
  \cup WrappedTestRunner
=============================================================================
